---- MODULE Spec2Model ----
(***************************************************************************)
(* Runbar: the process supervisors, the registry and the application.      *)
(*                                                                         *)
(* Spec     - src/src/core/processManager.ts: start/stop/stopAll, the log  *)
(*            buffer, the post-spawn port-conflict dialog and the status   *)
(*            poller.                                                      *)
(* FairSpec - the same machine with the fairness of Node's event loop.     *)
(* DepSpec  - src/unnamed/part_006: startService with dependencies, the   *)
(*            port probe and dialog, auto-restart, health monitoring.      *)
(* LegacySpec - src/src/processManager.ts with src/src/index.ts: the       *)
(*            supervisor and the quit handler of the first application.    *)
(* StoreSpec - src/unnamed/part_004: the StorageService over services.json,*)
(*            groups.json and settings.json, with overlapping operations.  *)
(* AppSpec  - src/src/main/app.ts and src/src/ui/trayMenuController.ts:    *)
(*            initialize with auto-start, group toggle, quit.              *)
(* ChainSpec - src/unnamed/part_006: startServicesWithDependencies and    *)
(*            startService over lists of services with dependencies.       *)
(***************************************************************************)
EXTENDS Integers, Sequences, FiniteSets, TLC

\* ------------------------------------------------------------------ bounds

\* Child processes spawned over one run.
MaxChildren == 2
\* Port-conflict dialogs opened over one run.
MaxDialogs == 1
\* stdout/stderr chunks delivered over one run.
MaxLines == 1
\* options.logStorageLimit as configured for the run (the default is 100).
LogStorageLimit == 1

\* Children the dependency-aware supervisor spawns, and startService calls
\* it has suspended at once.
MaxSpawned == 3
MaxTasks == 2
\* startService / stopService calls made to the dependency-aware supervisor.
MaxRequests == 3

\* Registry operations started over one run, operations suspended at once, and
\* ids generated.
MaxStoreOps == 3
MaxStoreTasks == 2
MaxUuid == 3

\* The group toggles the user asks for.
MaxToggles == 2
\* The services of the list given to startServicesWithDependencies.
MaxGiven == 3
\* The startService calls suspended inside one another.
MaxDepth == 4

\* ---------------------------------------------------------------- services

\* A nullable value: <<>> is null/undefined, <<x>> is x.
Null == <<>>

Some(x) == <<x>>

Services == {"api", "blank"}

\* The services of the registry the application starts from (AppSpec).
Registered == {"api", "web"}

Known == Services \cup Registered

\* service.path
Path(s) == IF s = "api" THEN "/p" ELSE IF s = "web" THEN "/w" ELSE "/r"

Paths == {Path(s) : s \in Known}

\* service.command, as characters
Command(s) == IF s \in Registered THEN <<" ", "n", "p", "m", " ">> ELSE <<" ", " ">>

IsSpace(ch) == ch = " "

RECURSIVE TrimStart(_)
TrimStart(str) ==
  IF str = <<>> THEN <<>>
  ELSE IF IsSpace(Head(str)) THEN TrimStart(Tail(str)) ELSE str

RECURSIVE TrimEnd(_)
TrimEnd(str) ==
  IF str = <<>> THEN <<>>
  ELSE IF IsSpace(str[Len(str)]) THEN TrimEnd(SubSeq(str, 1, Len(str) - 1)) ELSE str

\* String.prototype.trim
Trim(str) == TrimEnd(TrimStart(str))

\* ------------------------------------------------------------------- state

VARIABLES
  processes,      \* this.processes: path -> ManagedProcess, NoEntry when absent
  children,       \* the ChildProcess objects spawned so far, with their closures
  nChildren,      \* how many were spawned
  dialogs,        \* conflict dialogs waiting for the user's answer
  nDialogs,       \* how many were opened
  nLines,         \* how many stdout/stderr chunks were delivered
  events,         \* eventBus: per service, how often each event was emitted
  occKills,       \* process.kill(pid) calls that reached a port's occupant
  stopAllPc,      \* stopAllServices: "idle", or "awaiting" Promise.all
  clearedUnasked  \* paths a clear() removed without a kill() sent to their process

coreVars == <<processes, children, nChildren, dialogs, nDialogs, nLines, events,
              occKills, stopAllPc, clearedUnasked>>

\* The supervisor with dependencies, port probing and auto-restart (DepSpec).
VARIABLES
  managed,        \* this.processes: path -> ManagedProcess, Untracked when absent
  spawned,        \* the ChildProcess objects spawned so far
  nSpawned,       \* how many were spawned
  tasks,          \* the startService calls suspended at an await, by slot
  timers,         \* per service, the pending setTimeout(startService) restarts
  intervals,      \* the live health-check intervals (named by their child)
  autoSince,      \* per service, automatic spawns since its last manual spawn
  occSignals,     \* process.kill(pid) calls sent to a port's occupant
  nRequests       \* how many startService / stopService calls callers made

depVars == <<managed, spawned, nSpawned, tasks, timers, intervals, autoSince,
             occSignals, nRequests>>

\* The supervisor of src/src/processManager.ts (LegacySpec) keeps its state in
\* the variables of Spec, and adds:
VARIABLES
  unhandled       \* promise rejections no handler caught

legacyVars == <<unhandled>>

\* The registry on disk (StoreSpec).
VARIABLES
  servicesFile,   \* the content of services.json
  groupsFile,     \* the content of groups.json
  settingsFile,   \* the content of settings.json
  backups,        \* the files of the backups directory, as <<file, content>>
  storeTasks,     \* the registry operations suspended at an await, by slot
  nUuid,          \* how many ids uuidv4() has produced
  nStoreOps,      \* how many registry operations callers started
  storeReady,     \* initialize() has completed
  acked           \* ids of the services the completed operations left in the registry

storeVars == <<servicesFile, groupsFile, settingsFile, backups, storeTasks, nUuid,
               nStoreOps, storeReady, acked>>

\* The application around the supervisor and the registry (AppSpec).
VARIABLES
  appPc,          \* RunbarApp.initialize(): "new", "settings", "services", "ready"
  toggle,         \* the handleGroupToggle or handleServiceToggle call suspended at an await
  nToggles,       \* how many group toggles the user asked for
  quitAsked,      \* the quit action was taken
  autoCalls,      \* the services handleAutoStart called startService with, in order
  toggleCalls     \* the calls of the last group toggle, as <<operation, service>>

appVars == <<appPc, toggle, nToggles, quitAsked, autoCalls, toggleCalls>>

\* One call of startService or startServicesWithDependencies of
\* src/unnamed/part_006 over a list of services (ChainSpec).
VARIABLES
  given,          \* the services of the registry, which are also the list passed in
  chain           \* the call: its sorted list, position, results, the startService
                  \* calls suspended at an await, and the paths in this.processes

chainVars == <<given, chain>>

vars == <<coreVars, depVars, legacyVars, storeVars, appVars, chainVars>>

\* What the actions of one component leave alone.
beyondCore == <<depVars, legacyVars, storeVars, appVars, chainVars>>
beyondDep == <<coreVars, legacyVars, storeVars, appVars, chainVars>>
beyondLegacy == <<depVars, storeVars, appVars, chainVars>>
beyondStore == <<coreVars, depVars, legacyVars, appVars, chainVars>>
beyondChain == <<coreVars, depVars, legacyVars, storeVars, appVars>>

NoEntry == [process |-> 0, adopted |-> FALSE, info |-> Null]

EventKinds == {"started", "stopped", "error", "statusChanged"}

\* The pid lsof reports for the process that holds the port.
OccupantPid == MaxChildren + 1

\* A ProcessInfo (pid, status, exitCode, error, logs).
NewInfo(pid, logs) ==
  [pid |-> pid, status |-> "running", exitCode |-> Null, error |-> Null, logs |-> logs]

\* The info of a tracked entry: the child's own object, or the adopted entry's.
InfoOf(procs, kids, p) ==
  IF procs[p].process # 0 THEN kids[procs[p].process].info ELSE procs[p].info[1]

Tracked(p) == processes[p] # NoEntry

\* A slot of `children` before its spawn.
Unborn ==
  [svc |-> "", pid |-> Null, os |-> "none", exitWith |-> Null, exitCode |-> Null,
   killed |-> FALSE, info |-> NewInfo(-1, <<>>)]

CoreInit ==
  /\ processes = [p \in Paths |-> NoEntry]
  /\ children = [c \in 1..MaxChildren |-> Unborn]
  /\ nChildren = 0
  /\ dialogs = {}
  /\ nDialogs = 0
  /\ nLines = 0
  /\ events = [s \in Known |-> [k \in EventKinds |-> 0]]
  /\ occKills = 0
  /\ stopAllPc = "idle"
  /\ clearedUnasked = {}

\* eventBus.emitService<kind>(service)
Emit(evs, s, kind) == [evs EXCEPT ![s][kind] = @ + 1]


\* ------------------------------------------------------------ the log buffer

\* The default of options.logStorageLimit, used when the option is 0/undefined.
DefaultLogLimit == 100

\* this.options.logStorageLimit || 100
EffectiveLimit == IF LogStorageLimit = 0 THEN DefaultLogLimit ELSE LogStorageLimit

\* The chunks a child may write.
DataLines == {"listening", "EADDRINUSE :::3000", "address already in use"}

\* /EADDRINUSE|address already in use/i.test(line)
IsPortInUse(line) == line \in {"EADDRINUSE :::3000", "address already in use"}

\* The port the four patterns extract from the line, null when none matches.
PortOf(line) == IF line = "EADDRINUSE :::3000" THEN Some(3000) ELSE Null

\* emitLog's buffer update: push, then shift once when over the limit.
Buffered(logs, line) ==
  LET l == Append(logs, line)
  IN IF Len(l) > EffectiveLimit THEN Tail(l) ELSE l

\* emitLog(line) in the closure of child c.
EmitLog(kids, c, line) == [kids EXCEPT ![c].info.logs = Buffered(@, line)]

\* logs.push(line) on the closure's array, with no limit applied.
PushLog(kids, c, line) == [kids EXCEPT ![c].info.logs = Append(@, line)]

\* ------------------------------------------------------------- startService

\* Started without the already-running guard.
StartedUnguarded(s, procs, kids, n, evs, pidOk) ==
  LET p == Path(s)
      c == n + 1
  IN IF Trim(Command(s)) = <<>>
     THEN [ret |-> FALSE, spawned |-> FALSE, procs |-> procs,
           kids |-> kids, n |-> n, evs |-> evs]
     ELSE [ret |-> TRUE, spawned |-> TRUE,
           procs |-> [procs EXCEPT ![p] =
                        [process |-> c, adopted |-> FALSE, info |-> Null]],
           kids |-> [kids EXCEPT ![c] =
                       [svc |-> s,
                        pid |-> IF pidOk THEN Some(c) ELSE Null,
                        os |-> IF pidOk THEN "alive" ELSE "failed",
                        exitWith |-> Null, exitCode |-> Null, killed |-> FALSE,
                        info |-> NewInfo(IF pidOk THEN c ELSE -1, <<>>)]],
           n |-> c,
           evs |-> Emit(evs, s, "started")]

\* startService(service) run on the given state: the already-running guard, the
\* empty-command guard, then spawn, the handlers, processes.set and the
\* started event.  pidOk is whether the spawn got a pid.
Started(s, procs, kids, n, evs, pidOk) ==
  LET p == Path(s)
      c == n + 1
      unchanged == [ret |-> FALSE, spawned |-> FALSE, procs |-> procs,
                    kids |-> kids, n |-> n, evs |-> evs]
  IN IF procs[p] # NoEntry THEN unchanged
     ELSE IF Trim(Command(s)) = <<>> THEN unchanged
     ELSE [ret |-> TRUE, spawned |-> TRUE,
           procs |-> [procs EXCEPT ![p] =
                        [process |-> c, adopted |-> FALSE, info |-> Null]],
           kids |-> [kids EXCEPT ![c] =
                       [svc |-> s,
                        pid |-> IF pidOk THEN Some(c) ELSE Null,
                        os |-> IF pidOk THEN "alive" ELSE "failed",
                        exitWith |-> Null, exitCode |-> Null, killed |-> FALSE,
                        info |-> NewInfo(IF pidOk THEN c ELSE -1, <<>>)]],
           n |-> c,
           evs |-> Emit(evs, s, "started")]

\* Whether a start of s on the given map would spawn.
WouldSpawn(s, procs) == procs[Path(s)] = NoEntry /\ Trim(Command(s)) # <<>>

\* A caller invokes startService(s).
StartService(s) ==
  /\ WouldSpawn(s, processes) => nChildren < MaxChildren
  /\ \E pidOk \in BOOLEAN :
       LET r == Started(s, processes, children, nChildren, events, pidOk)
       IN /\ ~r.spawned => pidOk
          /\ processes' = r.procs
          /\ children' = r.kids
          /\ nChildren' = r.n
          /\ events' = r.evs
  /\ UNCHANGED <<dialogs, nDialogs, nLines, occKills, stopAllPc, clearedUnasked>>
  /\ UNCHANGED beyondCore

\* -------------------------------------------------------------- stopService

\* StoppedOn that kills but forgets processes.delete.
StoppedOnKeeps(s, procs, kids, evs) ==
  LET p == Path(s)
      c == procs[p].process
  IN IF procs[p] = NoEntry
     THEN [ret |-> FALSE, procs |-> procs, kids |-> kids, evs |-> evs]
     ELSE [ret |-> TRUE,
           procs |-> procs,
           kids |-> IF c # 0
                    THEN [kids EXCEPT ![c].info.status = "stopping", ![c].killed = TRUE]
                    ELSE kids,
           evs |-> Emit(evs, s, "stopped")]

\* StoppedOn that emits the stopped event before it looks the entry up.
StoppedOnAlwaysEmits(s, procs, kids, evs) ==
  LET p == Path(s)
      c == procs[p].process
  IN IF procs[p] = NoEntry
     THEN [ret |-> FALSE, procs |-> procs, kids |-> kids,
           evs |-> Emit(evs, s, "stopped")]
     ELSE [ret |-> TRUE,
           procs |-> [procs EXCEPT ![p] = NoEntry],
           kids |-> IF c # 0
                    THEN [kids EXCEPT ![c].info.status = "stopping", ![c].killed = TRUE]
                    ELSE kids,
           evs |-> Emit(evs, s, "stopped")]

\* stopService(service) run on the given state: the lookup, status 'stopping',
\* kill() on the handle, processes.delete and the stopped event.
StoppedOn(s, procs, kids, evs) ==
  LET p == Path(s)
      c == procs[p].process
  IN IF procs[p] = NoEntry
     THEN [ret |-> FALSE, procs |-> procs, kids |-> kids, evs |-> evs]
     ELSE [ret |-> TRUE,
           procs |-> [procs EXCEPT ![p] = NoEntry],
           kids |-> IF c # 0
                    THEN [kids EXCEPT ![c].info.status = "stopping", ![c].killed = TRUE]
                    ELSE kids,
           evs |-> Emit(evs, s, "stopped")]

\* stopService(service) run on the current state.
Stopped(s) == StoppedOn(s, processes, children, events)

\* A caller invokes stopService(s).
StopService(s) ==
  LET r == Stopped(s)
  IN /\ processes' = r.procs
     /\ children' = r.kids
     /\ events' = r.evs
     /\ UNCHANGED <<nChildren, dialogs, nDialogs, nLines, occKills, stopAllPc,
                    clearedUnasked>>
     /\ UNCHANGED beyondCore

\* ------------------------------------------------------- the child's events

\* The macrotask queue is only served between turns: no I/O callback runs while
\* stopAllServices is suspended on its already-settled Promise.all.
BetweenTurns == stopAllPc = "idle"

\* What handlePortInUseError adds for a log line of child c: nothing for an
\* ordinary line, else the dialog it opens (found: lsof named the occupant).
Opened(c, line, found) ==
  IF IsPortInUse(line)
  THEN {[id |-> nDialogs + 1, svc |-> children[c].svc, child |-> c,
         port |-> PortOf(line),
         proc |-> IF PortOf(line) # Null /\ found THEN Some(OccupantPid) ELSE Null]}
  ELSE {}

\* child.stdout / child.stderr 'data': emitLog(data.toString()).
OnData(c, line) ==
  /\ BetweenTurns
  /\ children[c].os \in {"alive", "dead"}
  /\ nLines < MaxLines
  /\ IsPortInUse(line) => nDialogs < MaxDialogs
  /\ \E found \in BOOLEAN :
       /\ (~IsPortInUse(line) \/ PortOf(line) = Null) => found
       /\ dialogs' = dialogs \cup Opened(c, line, found)
  /\ nDialogs' = IF IsPortInUse(line) THEN nDialogs + 1 ELSE nDialogs
  /\ children' = EmitLog(children, c, line)
  /\ nLines' = nLines + 1
  /\ UNCHANGED <<processes, nChildren, events, occKills, stopAllPc, clearedUnasked>>
  /\ UNCHANGED beyondCore

\* The exit codes a process ends with; null when a signal ended it.
ExitCodes == {Null, Some(0), Some(1)}

\* The operating system ends the process (on its own, or on a signal).
ChildDies(c, code) ==
  /\ BetweenTurns
  /\ children[c].os = "alive"
  /\ children' = [children EXCEPT ![c].os = "dead", ![c].exitWith = code]
  /\ UNCHANGED <<processes, nChildren, dialogs, nDialogs, nLines, events, occKills,
                 stopAllPc, clearedUnasked>>
  /\ UNCHANGED beyondCore

\* code || -1
OrMinusOne(code) == IF code = Null \/ code = Some(0) THEN Some(-1) ELSE code

\* The text of the final log line.
ExitLine(code) ==
  CASE code = Null -> "Process exited with code null"
    [] code = Some(0) -> "Process exited with code 0"
    [] OTHER -> "Process exited with code 1"

\* child.on('exit'): the handle's exitCode is set (not for a signal), then the
\* handler runs.
OnExit(c) ==
  /\ BetweenTurns
  /\ children[c].os = "dead"
  /\ LET code == children[c].exitWith
         k1 == [children EXCEPT ![c].os = "done",
                                ![c].exitCode = code,
                                ![c].info.status = "stopped",
                                ![c].info.exitCode = OrMinusOne(code)]
     IN children' = EmitLog(k1, c, ExitLine(code))
  /\ events' = Emit(events, children[c].svc, "stopped")
  /\ UNCHANGED <<processes, nChildren, dialogs, nDialogs, nLines, occKills,
                 stopAllPc, clearedUnasked>>
  /\ UNCHANGED beyondCore

\* child.on('error') after a failed spawn: the handle's exitCode is the
\* negative errno, and no exit event follows.
OnError(c) ==
  /\ BetweenTurns
  /\ children[c].os = "failed"
  /\ LET k1 == [children EXCEPT ![c].os = "done",
                                ![c].exitCode = Some(-2),
                                ![c].info.status = "error",
                                ![c].info.error = Some("spawn ENOENT")]
     IN children' = EmitLog(k1, c, "Process error: spawn ENOENT")
  /\ events' = Emit(events, children[c].svc, "error")
  /\ UNCHANGED <<processes, nChildren, dialogs, nDialogs, nLines, occKills,
                 stopAllPc, clearedUnasked>>
  /\ UNCHANGED beyondCore

\* ------------------------------------------------------ the conflict dialog

\* An adopted entry whose buffer holds the marker line alone.
AdoptedMarkerOnly(d) ==
  [process |-> 0, adopted |-> TRUE,
   info |-> Some(NewInfo(IF d.proc # Null THEN d.proc[1] ELSE -1,
                         <<"Adopted running process">>))]

\* The entry 'Mark as Running' stores: no handle, a copy of the closure's logs
\* with the marker line appended.
Adopted(d) ==
  [process |-> 0, adopted |-> TRUE,
   info |-> Some(NewInfo(IF d.proc # Null THEN d.proc[1] ELSE -1,
                         Append(children[d.child].info.logs,
                                "Adopted running process")))]

\* dialogOptions.buttons of showPortInUseDialog: the same three for every
\* conflict; the response is the index of the button, from 0.
Buttons(d) == <<"Ignore", "Mark as Running", "Kill Process and Start">>

\* showPortInUseDialog after dialog.showMessageBox resolved with response r;
\* killOk is whether process.kill(pid) found the occupant.
DialogAnswer(d, r, killOk) ==
  /\ BetweenTurns
  /\ d \in dialogs
  /\ dialogs' = dialogs \ {d}
  /\ (r # 2 \/ d.proc = Null \/ d.port = Null) => killOk
  /\ CASE r = 1 ->
            /\ processes' = [processes EXCEPT ![Path(d.svc)] = Adopted(d)]
            /\ events' = Emit(events, d.svc, "started")
            /\ UNCHANGED <<children, nChildren, occKills>>
       [] r = 2 /\ d.proc # Null /\ d.port # Null /\ killOk ->
            /\ WouldSpawn(d.svc, processes) => nChildren < MaxChildren
            /\ \E pidOk \in BOOLEAN :
                 LET k1 == PushLog(children, d.child, "Killed process")
                     st == Started(d.svc, processes, k1, nChildren, events, pidOk)
                 IN /\ ~st.spawned => pidOk
                    /\ processes' = st.procs
                    /\ children' = st.kids
                    /\ nChildren' = st.n
                    /\ events' = st.evs
            /\ occKills' = occKills + 1
       [] r = 2 /\ d.proc # Null /\ d.port # Null /\ ~killOk ->
            /\ children' = PushLog(children, d.child, "Failed to kill process")
            /\ UNCHANGED <<processes, nChildren, events, occKills>>
       [] OTHER ->
            UNCHANGED <<processes, children, nChildren, events, occKills>>
  /\ UNCHANGED <<nDialogs, nLines, stopAllPc, clearedUnasked>>
  /\ UNCHANGED beyondCore

\* ------------------------------------------------------------ status polling

\* The children the poller looks at: tracked with a handle, believed running.
Polled == {c \in 1..MaxChildren :
             /\ \E p \in Paths : processes[p].process = c
             /\ children[c].info.status = "running"}

\* One tick of the setInterval callback; for the children in `gone` the
\* signal-0 probe throws.
PollTick(gone) ==
  /\ BetweenTurns
  /\ gone \subseteq {c \in Polled : children[c].os = "dead"}
  /\ LET byCode == {c \in Polled : children[c].exitCode # Null}
         byProbe == {c \in Polled \ byCode : children[c].pid # Null /\ c \in gone}
     IN /\ byCode \cup byProbe # {}
        /\ children' =
             [c \in 1..MaxChildren |->
                IF c \in byCode
                THEN [children[c] EXCEPT !.info.status = "stopped",
                                         !.info.exitCode = children[c].exitCode]
                ELSE IF c \in byProbe
                THEN [children[c] EXCEPT !.info.status = "stopped",
                                         !.info.exitCode = Some(-1)]
                ELSE children[c]]
        /\ events' =
             [s \in Known |->
                [events[s] EXCEPT !["statusChanged"] =
                   @ + Cardinality({c \in byCode \cup byProbe : children[c].svc = s})]]
  /\ UNCHANGED <<processes, nChildren, dialogs, nDialogs, nLines, occKills,
                 stopAllPc, clearedUnasked>>
  /\ UNCHANGED beyondCore

\* ---------------------------------------------------------- stopAllServices

\* stopAllServices up to its await: every tracked handle gets kill().
StopAllBegin ==
  /\ stopAllPc = "idle"
  /\ stopAllPc' = "awaiting"
  /\ children' =
       [c \in 1..MaxChildren |->
          IF \E p \in Paths : processes[p].process = c
          THEN [children[c] EXCEPT !.killed = TRUE]
          ELSE children[c]]
  /\ UNCHANGED <<processes, nChildren, dialogs, nDialogs, nLines, events, occKills,
                 clearedUnasked>>
  /\ UNCHANGED beyondCore

\* Whether kill() was called on the handle of the entry at p.
KillSent(p) == processes[p].process # 0 /\ children[processes[p].process].killed

\* stopAllServices after Promise.all: this.processes.clear().
StopAllFinish ==
  /\ stopAllPc = "awaiting"
  /\ stopAllPc' = "idle"
  /\ clearedUnasked' = clearedUnasked \cup {p \in Paths : Tracked(p) /\ ~KillSent(p)}
  /\ processes' = [p \in Paths |-> NoEntry]
  /\ UNCHANGED <<children, nChildren, dialogs, nDialogs, nLines, events, occKills>>
  /\ UNCHANGED beyondCore

\* ------------------------------------------------------------------- reads

\* getServiceStatus that answers from the operating system for an untracked path.
getServiceStatusFromOs(p) ==
  IF processes[p] = NoEntry
  THEN IF \E c \in 1..MaxChildren : Path(children[c].svc) = p /\ children[c].os = "alive"
       THEN "running" ELSE "stopped"
  ELSE IF processes[p].process = 0 THEN processes[p].info[1].status
  ELSE IF children[processes[p].process].exitCode # Null THEN "stopped"
  ELSE "running"

\* getServiceStatus(servicePath)
getServiceStatus(p) ==
  IF processes[p] = NoEntry THEN "stopped"
  ELSE IF processes[p].process = 0 THEN processes[p].info[1].status
  ELSE IF children[processes[p].process].exitCode # Null THEN "stopped"
  ELSE "running"

\* getServiceLogs(servicePath)
getServiceLogs(p) ==
  IF processes[p] = NoEntry THEN <<>> ELSE InfoOf(processes, children, p).logs

\* ----------------------------------------- the supervisor with dependencies

\* storage.getServices(): the configured services, by name.
Registry == {"web", "db", "cache"}

\* service.path
PathOf(s) == CASE s = "web" -> "/w" [] s = "db" -> "/d" [] OTHER -> "/c"

RegistryPaths == {PathOf(s) : s \in Registry}

\* service.dependencies
Dependencies(s) == IF s = "web" THEN <<"db", "cache">> ELSE <<>>

\* service.autoStart
AutoStart(s) == s = "db"

\* service.startupDelay, in ms (0 when undefined)
StartupDelay(s) == IF s = "db" THEN 500 ELSE 0

\* service.command, as its words
CommandLine(s) ==
  CASE s = "web" -> <<"npm", "start">>
    [] s = "db" -> <<"PORT=5432", "postgres">>
    [] OTHER -> <<"redis-server">>

\* /--port[= ](\d+)/ or /PORT=(\d+)/ on the command: the port, or null.
DeclaredPort(s) ==
  IF \E i \in 1..Len(CommandLine(s)) : CommandLine(s)[i] \in {"PORT=5432", "--port=5432"}
  THEN Some(5432) ELSE Null

\* The attempt ceiling of checkServiceHealth.
RestartCeiling == 5

\* No ManagedProcess at the path.
Untracked ==
  [tracked |-> FALSE, process |-> 0, status |-> "stopped", healthCheck |-> 0,
   restartAttempts |-> 0, lastRestart |-> FALSE]

\* The ManagedProcess startService stores for child c (status: that of an
\* entry without a handle; a handle's status lives with the child).
Managed(c) ==
  [tracked |-> TRUE, process |-> c, status |-> "running", healthCheck |-> 0,
   restartAttempts |-> 0, lastRestart |-> FALSE]

\* A slot of `spawned` before its spawn.
Unspawned ==
  [svc |-> "", os |-> "none", exitCode |-> Null, killed |-> FALSE,
   info |-> [status |-> "running", exitCode |-> Null]]

\* A stack frame of startService(s); i is the dependency being started and
\* found whether lsof named the port's occupant.
Frame(s) == [svc |-> s, pc |-> "enter", i |-> 0, found |-> FALSE]

\* A free slot of `tasks`.
Idle == [origin |-> "", stack |-> <<>>]

DepInit ==
  /\ managed = [p \in RegistryPaths |-> Untracked]
  /\ spawned = [c \in 1..MaxSpawned |-> Unspawned]
  /\ nSpawned = 0
  /\ tasks = [t \in 1..MaxTasks |-> Idle]
  /\ timers = [s \in Registry |-> 0]
  /\ intervals = {}
  /\ autoSince = [s \in Registry |-> 0]
  /\ occSignals = 0
  /\ nRequests = 0

\* The supervisor's state while a call runs: the map, the children, the
\* intervals, the signals sent to occupants, the stack of the running call
\* (origin: "user", or "auto" for a restart timer), its result once it
\* returned, and `over` when it would spawn beyond MaxSpawned.
Machine(origin, stack) ==
  [procs |-> managed, kids |-> spawned, n |-> nSpawned, ints |-> intervals,
   auto |-> autoSince, sigs |-> occSignals, origin |-> origin, stack |-> stack,
   ret |-> Null, over |-> FALSE]

Top(m) == m.stack[Len(m.stack)]

SetTop(m, f) == [m EXCEPT !.stack = [@ EXCEPT ![Len(@)] = f]]

At(m, pc) == SetTop(m, [Top(m) EXCEPT !.pc = pc])

\* spawn, the handlers, processes.set and startHealthMonitoring for s.
SpawnFor(m, s) ==
  LET c == m.n + 1
  IN IF m.n >= MaxSpawned THEN [m EXCEPT !.over = TRUE]
     ELSE [m EXCEPT
             !.kids[c] = [svc |-> s, os |-> "alive", exitCode |-> Null,
                          killed |-> FALSE,
                          info |-> [status |-> "running", exitCode |-> Null]],
             !.n = c,
             !.procs[PathOf(s)] =
                [Managed(c) EXCEPT !.healthCheck = IF AutoStart(s) THEN c ELSE 0],
             !.ints = IF AutoStart(s) THEN @ \cup {c} ELSE @,
             !.auto[s] = IF m.origin = "auto" THEN @ + 1 ELSE 0]

RECURSIVE Run(_), Return(_, _)

\* The top call returns v: to the event loop, or into startDependencies of
\* its caller (a failure throws into the caller's catch, which returns false; a
\* success waits the dependency's startupDelay or goes on with the loop).
Return(m, v) ==
  LET callee == Top(m).svc
      m1 == [m EXCEPT !.stack = SubSeq(@, 1, Len(@) - 1)]
  IN IF m1.stack = <<>> THEN [m1 EXCEPT !.ret = Some(v)]
     ELSE IF ~v THEN Return(m1, FALSE)
     ELSE IF StartupDelay(callee) > 0 THEN At(m1, "delay")
     ELSE Run(SetTop(m1, [Top(m1) EXCEPT !.pc = "loop", !.i = @ + 1]))

\* startService / startDependencies run from the top frame's position up to
\* the next await that leaves the turn ("deps": storage.getServices, "call":
\* the dependency's start, "delay": startupDelay, "probe": detectPort,
\* "dialog": showMessageBox), or to the return of the outermost call.
Run(m) ==
  LET f == Top(m)
      s == f.svc
  IN CASE f.pc = "enter" ->
            IF m.procs[PathOf(s)].tracked THEN Return(m, FALSE)
            ELSE IF Dependencies(s) # <<>> THEN At(m, "deps")
            ELSE Run(At(m, "port"))
       [] f.pc = "loop" ->
            IF f.i > Len(Dependencies(s)) THEN Run(At(m, "port"))
            ELSE LET d == Dependencies(s)[f.i]
                 IN IF d \notin Registry \/ m.procs[PathOf(d)].tracked
                    THEN Run(SetTop(m, [f EXCEPT !.i = @ + 1]))
                    ELSE Run([At(m, "call") EXCEPT !.stack = Append(@, Frame(d))])
       [] f.pc = "port" ->
            IF DeclaredPort(s) # Null THEN At(m, "probe") ELSE Run(At(m, "spawn"))
       [] f.pc = "spawn" ->
            IF CommandLine(s) = <<>> THEN Return(m, FALSE)
            ELSE Return(SpawnFor(m, s), TRUE)
       [] OTHER -> m

\* The supervisor's variables after the call in slot t (0: a new call) ran.
Settle(m, t) ==
  LET free == {u \in 1..MaxTasks : tasks[u] = Idle}
      slot == IF t # 0 THEN t ELSE CHOOSE u \in free : \A w \in free : u <= w
      task == IF m.stack = <<>> THEN Idle ELSE [origin |-> m.origin, stack |-> m.stack]
  IN /\ ~m.over
     /\ (t = 0 /\ m.stack # <<>>) => free # {}
     /\ managed' = m.procs
     /\ spawned' = m.kids
     /\ nSpawned' = m.n
     /\ intervals' = m.ints
     /\ autoSince' = m.auto
     /\ occSignals' = m.sigs
     /\ tasks' = IF t = 0 /\ m.stack = <<>> THEN tasks
                 ELSE [tasks EXCEPT ![slot] = task]

\* A caller invokes startService(s) of the dependency-aware supervisor.
StartWithDependencies(s) ==
  /\ nRequests < MaxRequests
  /\ nRequests' = nRequests + 1
  /\ Settle(Run(Machine("user", <<Frame(s)>>)), 0)
  /\ UNCHANGED timers
  /\ UNCHANGED beyondDep

\* A restart timer (setTimeout(() => this.startService(service))) fires.
RestartTimer(s) ==
  /\ timers[s] > 0
  /\ timers' = [timers EXCEPT ![s] = @ - 1]
  /\ Settle(Run(Machine("auto", <<Frame(s)>>)), 0)
  /\ UNCHANGED nRequests
  /\ UNCHANGED beyondDep

\* The suspended call in slot t, as a machine.
Resumed(t) == Machine(tasks[t].origin, tasks[t].stack)

Waiting(t, pc) == tasks[t] # Idle /\ tasks[t].stack[Len(tasks[t].stack)].pc = pc

\* storage.getServices() resolved: the loop over the dependencies begins.
ServicesLoaded(t) ==
  /\ Waiting(t, "deps")
  /\ Settle(Run(SetTop(Resumed(t), [Top(Resumed(t)) EXCEPT !.pc = "loop", !.i = 1])), t)
  /\ UNCHANGED <<timers, nRequests>>
  /\ UNCHANGED beyondDep

\* The startupDelay of the dependency just started has passed.
DelayPassed(t) ==
  /\ Waiting(t, "delay")
  /\ Settle(Run(SetTop(Resumed(t), [Top(Resumed(t)) EXCEPT !.pc = "loop", !.i = @ + 1])), t)
  /\ UNCHANGED <<timers, nRequests>>
  /\ UNCHANGED beyondDep

\* detectPort resolved: the port is free, or it is taken and lsof did or did
\* not name the occupant; in the latter cases the dialog opens.
Probed(m, free, found) ==
  IF free THEN Run(At(m, "spawn"))
  ELSE SetTop(m, [Top(m) EXCEPT !.pc = "dialog", !.found = found])

PortProbed(t, free, found) ==
  /\ Waiting(t, "probe")
  /\ free => found
  /\ Settle(Probed(Resumed(t), free, found), t)
  /\ UNCHANGED <<timers, nRequests>>
  /\ UNCHANGED beyondDep

\* The entry 'Mark as Running' stores.
AdoptedEntry == Managed(0)

\* showMessageBox resolved with response r.
Answered(m, r) ==
  LET s == Top(m).svc
  IN IF Top(m).found
     THEN CASE r = 1 -> Return([m EXCEPT !.procs[PathOf(s)] = AdoptedEntry], TRUE)
            [] r = 3 -> Return([m EXCEPT !.sigs = @ + 1], FALSE)
            [] r = 2 -> Run(At(m, "spawn"))
            [] OTHER -> Return(m, FALSE)
     ELSE IF r = 1 THEN Run(At(m, "spawn")) ELSE Return(m, FALSE)

\* The buttons of the dialog: four when the occupant is known, else two.
Responses(found) == IF found THEN 0..3 ELSE 0..1

DialogAnswered(t, r) ==
  /\ Waiting(t, "dialog")
  /\ r \in Responses(Top(Resumed(t)).found)
  /\ Settle(Answered(Resumed(t), r), t)
  /\ UNCHANGED <<timers, nRequests>>
  /\ UNCHANGED beyondDep

\* child.on('exit') of the dependency-aware supervisor: the handle's exitCode
\* is set (null for a signal), the info is updated, and an autoStart service
\* that did not exit with 0 gets a restart timer.
ChildExits(c, code) ==
  /\ spawned[c].os = "alive"
  /\ spawned' = [spawned EXCEPT ![c].os = "done",
                                ![c].exitCode = code,
                                ![c].info.status = "stopped",
                                ![c].info.exitCode = OrMinusOne(code)]
  /\ timers' = IF AutoStart(spawned[c].svc) /\ code # Some(0)
               THEN [timers EXCEPT ![spawned[c].svc] = @ + 1]
               ELSE timers
  /\ UNCHANGED <<managed, nSpawned, tasks, intervals, autoSince, occSignals, nRequests>>
  /\ UNCHANGED beyondDep

\* What one run of checkServiceHealth(service) does to the entry of s: "none"
\* (no entry, no handle, or the handle has no exit code), "ceiling", "cooldown"
\* or "restart".  soon: the last restart is less than 30 s ago.
HealthVerdict(s, soon) ==
  LET e == managed[PathOf(s)]
  IN IF ~e.tracked \/ e.process = 0 THEN "none"
     ELSE IF spawned[e.process].exitCode = Null THEN "none"
     ELSE IF e.restartAttempts >= RestartCeiling THEN "ceiling"
     ELSE IF e.lastRestart /\ soon THEN "cooldown"
     ELSE "restart"

\* The interval k set by startHealthMonitoring fires: checkServiceHealth.
HealthTick(k, soon) ==
  LET s == spawned[k].svc
      p == PathOf(s)
      e == managed[p]
      v == HealthVerdict(s, soon)
  IN /\ k \in intervals
     /\ v # "none"
     /\ ~e.lastRestart => ~soon
     /\ intervals' = intervals \ {e.healthCheck}
     /\ managed' = IF v = "cooldown"
                   THEN [managed EXCEPT ![p].healthCheck = 0]
                   ELSE [managed EXCEPT ![p] = Untracked]
     /\ timers' = IF v = "restart" THEN [timers EXCEPT ![s] = @ + 1] ELSE timers
     /\ UNCHANGED <<spawned, nSpawned, tasks, autoSince, occSignals, nRequests>>
     /\ UNCHANGED beyondDep

\* stopService(service) of the dependency-aware supervisor: status
\* 'stopping', kill() on the handle, stopHealthMonitoring, processes.delete.
StopManaged(s) ==
  LET p == PathOf(s)
      e == managed[p]
  IN /\ nRequests < MaxRequests
     /\ nRequests' = nRequests + 1
     /\ IF ~e.tracked
        THEN UNCHANGED <<managed, spawned, intervals>>
        ELSE /\ spawned' = IF e.process # 0
                           THEN [spawned EXCEPT ![e.process].info.status = "stopping",
                                                ![e.process].killed = TRUE]
                           ELSE spawned
             /\ intervals' = intervals \ {e.healthCheck}
             /\ managed' = [managed EXCEPT ![p] = Untracked]
     /\ UNCHANGED <<nSpawned, tasks, timers, autoSince, occSignals>>
     /\ UNCHANGED beyondDep

\* getServiceStatus(servicePath) of the dependency-aware supervisor.
StatusOf(p) ==
  IF ~managed[p].tracked THEN "stopped"
  ELSE IF managed[p].process = 0 THEN managed[p].status
  ELSE IF spawned[managed[p].process].exitCode # Null THEN "stopped"
  ELSE "running"

\* ------------------------------ starting a list of services (part_006)

\* startServicesWithDependencies, sortServicesByDependencies and the chain of
\* startService and startDependencies calls they lead to, over services whose
\* dependency lists are an input.  The services carry a command without a port
\* and no startupDelay, so that the only await of a startService call is the
\* one of startDependencies; storage.getServices() returns the given list.

Svc(name, path, deps) ==
  [name |-> name, path |-> path, dependencies |-> deps, command |-> <<"r">>]

\* The same service with a command of spaces only.
Blank(service) == [service EXCEPT !.command = <<" ", " ">>]

\* The services a list is made of: "a" with and without a dependency on "b", a
\* second service named "a", "b" with and without a dependency on "a", and
\* "c" depending on both or on a service that is not in the list, and "d"
\* without a command, with and without a dependency on "b".
Candidates ==
  { Svc("a", "/a", <<>>), Svc("a", "/a", <<"b">>), Svc("a", "/a2", <<>>),
    Svc("b", "/b", <<>>), Svc("b", "/b", <<"a">>),
    Svc("c", "/c", <<"a", "b">>), Svc("c", "/c", <<"x">>),
    Blank(Svc("d", "/d", <<>>)), Blank(Svc("d", "/d", <<"b">>)) }

\* The lists of one to MaxGiven services with different paths.
Lists ==
  { l \in UNION { [1..n -> Candidates] : n \in 1..MaxGiven } :
      \A i, j \in DOMAIN l : l[i].path = l[j].path => i = j }

\* services.find(s => s.name === name): the index of the first match, or 0.
FindByName(list, name) ==
  LET hits == { k \in DOMAIN list : list[k].name = name }
  IN IF hits = {} THEN 0 ELSE CHOOSE k \in hits : \A h \in hits : k <= h

\* visit(service) of sortServicesByDependencies on <<visited, sorted>>, and its
\* loop over service.dependencies from the i-th on.
RECURSIVE visit(_, _, _), visitDependencies(_, _, _, _)
visit(st, service, list) ==
  IF service.name \in st.visited THEN st
  ELSE LET seen == [st EXCEPT !.visited = @ \cup {service.name}]
           below == visitDependencies(seen, service, 1, list)
       IN [below EXCEPT !.sorted = Append(@, service)]

visitDependencies(st, service, i, list) ==
  IF i > Len(service.dependencies) THEN st
  ELSE LET k == FindByName(list, service.dependencies[i])
       IN visitDependencies(IF k = 0 THEN st ELSE visit(st, list[k], list),
                            service, i + 1, list)

RECURSIVE visitFrom(_, _, _)
visitFrom(st, k, list) ==
  IF k > Len(list) THEN st ELSE visitFrom(visit(st, list[k], list), k + 1, list)

\* A sort that returns the list as it was given.
sortAsGiven(list) == list

sortServicesByDependencies(list) ==
  visitFrom([visited |-> {}, sorted |-> <<>>], 1, list).sorted

ChainIdle ==
  [mode |-> "idle", order |-> <<>>, pos |-> 0, results |-> <<>>, stack |-> <<>>,
   up |-> {}, over |-> FALSE]

ChainQuiet == given = <<>> /\ chain = ChainIdle

\* startService(service) up to its first await, the loop of startDependencies
\* from the top call's i-th dependency on, the rest of startService from its
\* command check on, and the return of a startService call with value v to
\* its caller: the startDependencies loop of the call on top of the stack, or
\* the outer caller when the stack is empty.
RECURSIVE Entered(_, _), Looped(_), Launched(_, _), Returned(_, _)
Entered(m, service) ==
  IF service.path \in m.up THEN Returned(m, FALSE)
  ELSE IF service.dependencies # <<>>
  THEN IF Len(m.stack) >= MaxDepth THEN [m EXCEPT !.over = TRUE]
       ELSE [m EXCEPT !.stack = Append(@, [service |-> service, i |-> 1])]
  ELSE Launched(m, service)

Launched(m, service) ==
  IF Trim(service.command) = <<>> THEN Returned(m, FALSE)
  ELSE Returned([m EXCEPT !.up = @ \cup {service.path}], TRUE)

Looped(m) ==
  LET n == Len(m.stack)
      f == m.stack[n]
      next == [m EXCEPT !.stack[n].i = @ + 1]
      k == IF f.i > Len(f.service.dependencies) THEN 0
           ELSE FindByName(given, f.service.dependencies[f.i])
  IN IF f.i > Len(f.service.dependencies)
     THEN Launched([m EXCEPT !.stack = SubSeq(@, 1, n - 1)], f.service)
     ELSE IF k = 0 THEN Looped(next)
     ELSE IF given[k].path \in m.up THEN Looped(next)
     ELSE Entered(m, given[k])

Returned(m, v) ==
  LET n == Len(m.stack)
      told == [m EXCEPT !.results = Append(@, v), !.pos = @ + 1]
  IN IF n > 0
     THEN IF v THEN Looped([m EXCEPT !.stack[n].i = @ + 1])
          ELSE Returned([m EXCEPT !.stack = SubSeq(@, 1, n - 1)], FALSE)
     ELSE IF m.mode = "one" \/ told.pos > Len(told.order)
     THEN [told EXCEPT !.mode = IF m.mode = "one" THEN "one done" ELSE "all done"]
     ELSE Entered(told, told.order[told.pos])

\* startService(given[k]), called on its own.
StartOne(k) ==
  /\ chain.mode = "idle"
  /\ k \in DOMAIN given
  /\ chain' = Entered([chain EXCEPT !.mode = "one", !.order = <<given[k]>>, !.pos = 1],
                      given[k])
  /\ UNCHANGED given
  /\ UNCHANGED beyondChain

\* startServicesWithDependencies(given): the sort, then the loop up to the
\* first startService call that suspends.
StartAll ==
  /\ chain.mode = "idle"
  /\ LET sorted == sortServicesByDependencies(given)
     IN chain' = Entered([chain EXCEPT !.mode = "all", !.order = sorted, !.pos = 1],
                         sorted[1])
  /\ UNCHANGED given
  /\ UNCHANGED beyondChain

\* storage.getServices() of the startDependencies call on top settles.
ChainLoaded ==
  /\ chain.mode \in {"one", "all"}
  /\ chain.stack # <<>>
  /\ ~chain.over
  /\ chain' = Looped(chain)
  /\ UNCHANGED given
  /\ UNCHANGED beyondChain

\* -------------------------------------- the supervisor of processManager.ts

\* src/src/processManager.ts has the map, the children and the log buffer of
\* the core supervisor, but no event bus and no stopAllServices; its conflict
\* flow runs in an async function that emitLog starts and nobody awaits.

LegacyInit == unhandled = 0

\* startService(service): Started without the events.
LegacyStart(s) ==
  /\ WouldSpawn(s, processes) => nChildren < MaxChildren
  /\ \E pidOk \in BOOLEAN :
       LET r == Started(s, processes, children, nChildren, events, pidOk)
       IN /\ ~r.spawned => pidOk
          /\ processes' = r.procs
          /\ children' = r.kids
          /\ nChildren' = r.n
  /\ UNCHANGED <<dialogs, nDialogs, nLines, events, occKills, stopAllPc, clearedUnasked>>
  /\ UNCHANGED unhandled
  /\ UNCHANGED beyondLegacy

\* stopService(service): StoppedOn without the event.
LegacyStop(s) ==
  LET r == Stopped(s)
  IN /\ processes' = r.procs
     /\ children' = r.kids
     /\ UNCHANGED <<nChildren, dialogs, nDialogs, nLines, events, occKills, stopAllPc,
                    clearedUnasked>>
     /\ UNCHANGED unhandled
     /\ UNCHANGED beyondLegacy

\* child.stdout / child.stderr 'data': emitLog pushes the line and, for a
\* port-in-use line, starts the conflict flow up to its showMessageBox.
LegacyData(c, line) ==
  /\ children[c].os \in {"alive", "dead"}
  /\ nLines < MaxLines
  /\ IsPortInUse(line) => nDialogs < MaxDialogs
  /\ \E found \in BOOLEAN :
       /\ (~IsPortInUse(line) \/ PortOf(line) = Null) => found
       /\ dialogs' = dialogs \cup Opened(c, line, found)
  /\ nDialogs' = IF IsPortInUse(line) THEN nDialogs + 1 ELSE nDialogs
  /\ children' = EmitLog(children, c, line)
  /\ nLines' = nLines + 1
  /\ UNCHANGED <<processes, nChildren, events, occKills, stopAllPc, clearedUnasked>>
  /\ UNCHANGED unhandled
  /\ UNCHANGED beyondLegacy

\* The operating system ends the process.
LegacyDies(c, code) ==
  /\ children[c].os = "alive"
  /\ children' = [children EXCEPT ![c].os = "dead", ![c].exitWith = code]
  /\ UNCHANGED <<processes, nChildren, dialogs, nDialogs, nLines, events, occKills,
                 stopAllPc, clearedUnasked>>
  /\ UNCHANGED unhandled
  /\ UNCHANGED beyondLegacy

\* child.on('exit')
LegacyExit(c) ==
  /\ children[c].os = "dead"
  /\ LET code == children[c].exitWith
         k1 == [children EXCEPT ![c].os = "done",
                                ![c].exitCode = code,
                                ![c].info.status = "stopped",
                                ![c].info.exitCode = OrMinusOne(code)]
     IN children' = EmitLog(k1, c, ExitLine(code))
  /\ UNCHANGED <<processes, nChildren, dialogs, nDialogs, nLines, events, occKills,
                 stopAllPc, clearedUnasked>>
  /\ UNCHANGED unhandled
  /\ UNCHANGED beyondLegacy

\* child.on('error') after a failed spawn
LegacyError(c) ==
  /\ children[c].os = "failed"
  /\ LET k1 == [children EXCEPT ![c].os = "done",
                                ![c].exitCode = Some(-2),
                                ![c].info.status = "error",
                                ![c].info.error = Some("spawn ENOENT")]
     IN children' = EmitLog(k1, c, "Process error: spawn ENOENT")
  /\ UNCHANGED <<processes, nChildren, dialogs, nDialogs, nLines, events, occKills,
                 stopAllPc, clearedUnasked>>
  /\ UNCHANGED unhandled
  /\ UNCHANGED beyondLegacy

\* The buttons of the dialog: three when the line named a port, else two.
LegacyResponses(d) == IF d.port # Null THEN 0..2 ELSE 0..1

\* The conflict flow after `await dialog.showMessageBox`: the promise
\* rejected (nothing catches it: the flow's own promise rejects, unhandled), or
\* it resolved with response r; killOk is whether process.kill(pid) found the
\* occupant.
LegacyDialog(d, rejected, r, killOk) ==
  /\ d \in dialogs
  /\ dialogs' = dialogs \ {d}
  /\ r \in LegacyResponses(d)
  /\ rejected => r = 0
  /\ (rejected \/ r # 2 \/ d.proc = Null) => killOk
  /\ unhandled' = IF rejected THEN unhandled + 1 ELSE unhandled
  /\ CASE ~rejected /\ r = 1 ->
            /\ processes' = [processes EXCEPT ![Path(d.svc)] = Adopted(d)]
            /\ UNCHANGED <<children, nChildren, occKills>>
       [] ~rejected /\ r = 2 /\ d.proc # Null /\ killOk ->
            /\ WouldSpawn(d.svc, processes) => nChildren < MaxChildren
            /\ \E pidOk \in BOOLEAN :
                 LET k1 == PushLog(children, d.child, "Killed process")
                     st == Started(d.svc, processes, k1, nChildren, events, pidOk)
                 IN /\ ~st.spawned => pidOk
                    /\ processes' = st.procs
                    /\ children' = st.kids
                    /\ nChildren' = st.n
            /\ occKills' = occKills + 1
       [] ~rejected /\ r = 2 /\ d.proc # Null /\ ~killOk ->
            /\ children' = PushLog(children, d.child, "Failed to kill process")
            /\ UNCHANGED <<processes, nChildren, occKills>>
       [] OTHER ->
            UNCHANGED <<processes, children, nChildren, occKills>>
  /\ UNCHANGED <<nDialogs, nLines, events, stopAllPc, clearedUnasked>>
  /\ UNCHANGED beyondLegacy

\* One tick of the constructor's setInterval; the status-change callbacks are
\* notified.
LegacyPoll(gone) ==
  /\ gone \subseteq {c \in Polled : children[c].os = "dead"}
  /\ LET byCode == {c \in Polled : children[c].exitCode # Null}
         byProbe == {c \in Polled \ byCode : children[c].pid # Null /\ c \in gone}
     IN /\ byCode \cup byProbe # {}
        /\ children' =
             [c \in 1..MaxChildren |->
                IF c \in byCode
                THEN [children[c] EXCEPT !.info.status = "stopped",
                                         !.info.exitCode = children[c].exitCode]
                ELSE IF c \in byProbe
                THEN [children[c] EXCEPT !.info.status = "stopped",
                                         !.info.exitCode = Some(-1)]
                ELSE children[c]]
  /\ UNCHANGED <<processes, nChildren, dialogs, nDialogs, nLines, events, occKills,
                 stopAllPc, clearedUnasked>>
  /\ UNCHANGED unhandled
  /\ UNCHANGED beyondLegacy

\* ------------------------------------------------------ the registry on disk

\* A file: absent, not parseable as JSON, or a JSON value.  The old format of
\* services.json / groups.json wraps the list in an object ("wrapped").
Absent == [kind |-> "absent", value |-> <<>>]
Garbage == [kind |-> "garbage", value |-> <<>>]
Json(v) == [kind |-> "json", value |-> v]
Wrapped(list) == [kind |-> "wrapped", value |-> list]

\* A service record as callers pass it: id 0 and the empty string stand for a
\* missing field; dependencies and startupDelay as in Service.
ServiceRecord(id, name, path, command, deps, delay) ==
  [id |-> id, name |-> name, path |-> path, command |-> command,
   autoStart |-> FALSE, projectType |-> "nodejs", status |-> "stopped",
   dependencies |-> deps, startupDelay |-> delay]

\* The records callers add: a complete one, one with dependencies and a
\* startup delay, and one without a name, a path, a command.
NewServices ==
  {ServiceRecord(0, "api", "/p", "run", <<>>, 0),
   ServiceRecord(0, "web", "/w", "run", <<"api">>, 500),
   ServiceRecord(0, "", "/p", "run", <<>>, 0),
   ServiceRecord(0, "api", "", "run", <<>>, 0),
   ServiceRecord(0, "api", "/p", "", <<>>, 0)}

\* `Service ${index + 1}`
DefaultName(index) == IF index = 0 THEN "Service 1" ELSE "Service 2"

\* The object validateServices builds from one element (index from 0); uuid
\* is the id uuidv4() would return.  The fields it does not copy are undefined
\* in the result: dependencies and startupDelay read back as none.
ValidatedService(s, index, uuid) ==
  [id |-> IF s.id = 0 THEN uuid ELSE s.id,
   name |-> IF s.name = "" THEN DefaultName(index) ELSE s.name,
   path |-> s.path,
   command |-> s.command,
   autoStart |-> s.autoStart,
   projectType |-> IF s.projectType = "" THEN "unknown" ELSE s.projectType,
   status |-> "stopped",
   dependencies |-> <<>>,
   startupDelay |-> 0]

\* Whether validateServices throws for the validated element.
MissingRequired(v) == v.name = "" \/ v.path = "" \/ v.command = ""

RECURSIVE ValidatedFrom(_, _, _)

\* validateServices(services) from element i on, with n ids produced so far:
\* ok is FALSE when it throws.
ValidatedFrom(list, i, n) ==
  IF i > Len(list) THEN [ok |-> TRUE, items |-> <<>>, n |-> n]
  ELSE LET fresh == list[i].id = 0
           v == ValidatedService(list[i], i - 1, n + 1)
           rest == ValidatedFrom(list, i + 1, IF fresh THEN n + 1 ELSE n)
       IN IF MissingRequired(v) \/ ~rest.ok
          THEN [ok |-> FALSE, items |-> <<>>, n |-> rest.n]
          ELSE [ok |-> TRUE, items |-> <<v>> \o rest.items, n |-> rest.n]

\* validateServices(services)
validateServices(list, n) == ValidatedFrom(list, 1, n)

\* A group record: services holds service ids.
GroupRecord(id, name, members) == [id |-> id, name |-> name, services |-> members]

\* `Group ${index + 1}`
DefaultGroupName(index) == IF index = 0 THEN "Group 1" ELSE "Group 2"

\* validateGroups(groups): a missing name gets its default, so no element of
\* an array of objects makes it throw (the groups here carry their ids).
validateGroups(list) ==
  [ok |-> TRUE,
   items |-> [i \in 1..Len(list) |->
                IF list[i].name = "" THEN [list[i] EXCEPT !.name = DefaultGroupName(i - 1)]
                ELSE list[i]]]

\* Whether validateSettings accepts the settings object.
validateSettings(s) == s.version # "" /\ s.markers

\* getServices() on the file content f: the list it returns and the content it
\* leaves (the old format is rewritten as a bare list); a missing file, a
\* parse error or a validation error gives the empty list.
ReadServices(f) ==
  CASE f.kind = "json" ->
         LET v == validateServices(f.value, MaxUuid)
         IN [list |-> IF v.ok THEN v.items ELSE <<>>, file |-> f]
    [] f.kind = "wrapped" ->
         LET v == validateServices(f.value, MaxUuid)
         IN [list |-> IF v.ok THEN v.items ELSE <<>>, file |-> Json(f.value)]
    [] OTHER -> [list |-> <<>>, file |-> f]

\* getGroups() on the file content f.
ReadGroups(f) ==
  CASE f.kind = "json" ->
         [list |-> validateGroups(f.value).items, file |-> f]
    [] f.kind = "wrapped" ->
         [list |-> validateGroups(f.value).items, file |-> Json(f.value)]
    [] OTHER -> [list |-> <<>>, file |-> f]

\* backupFile(filePath): the backups directory afterwards.  Nothing is copied
\* when the file is absent, and a failed copy is only logged.
BackedUp(bk, name, f, copyOk) ==
  IF f.kind # "absent" /\ copyOk THEN bk \cup {<<name, f>>} ELSE bk

\* saveServices(services) on the content f: validate, back up, write.  ok is
\* FALSE when it throws (nothing is written then).
SavedServices(f, bk, list, n, copyOk) ==
  LET v == validateServices(list, n)
  IN IF v.ok
     THEN [ok |-> TRUE, file |-> Json(v.items), n |-> v.n,
           backups |-> BackedUp(bk, "services.json", f, copyOk)]
     ELSE [ok |-> FALSE, file |-> f, n |-> v.n, backups |-> bk]

\* saveGroups(groups) on the content f.
SavedGroups(f, bk, list, copyOk) ==
  [ok |-> TRUE, file |-> Json(validateGroups(list).items),
   backups |-> BackedUp(bk, "groups.json", f, copyOk)]

\* config.defaults.settings, and the settings an imported document carries
\* (markers: discoveryMarkers is an array).
DefaultSettings == [version |-> "1.0", globalAutoStart |-> FALSE, markers |-> TRUE]
ImportedSettings == [version |-> "1.0", globalAutoStart |-> TRUE, markers |-> TRUE]

\* The groups callers add: one group whose member is the service with id 1.
NewGroups == {GroupRecord(0, "g", <<1>>)}

\* The lists callers pass to saveServices: complete records, with ids.
SavedLists ==
  {<<ServiceRecord(11, "api", "/p", "run", <<>>, 0)>>,
   <<ServiceRecord(11, "api", "/p", "run", <<>>, 0),
     ServiceRecord(12, "web", "/w", "run", <<"api">>, 500)>>}

\* The documents callers import: version 1.0, an unsupported version, none.
Imports ==
  {[version |-> ver, services |-> <<ServiceRecord(11, "api", "/p", "run", <<>>, 0)>>,
    groups |-> <<>>, settings |-> ImportedSettings] : ver \in {"1.0", "9.9", ""}}

\* No operation in the slot.
NoTask == [op |-> "", pc |-> "", id |-> 0, rec |-> <<>>, list |-> <<>>]

Task(op, pc, id, rec, list) == [op |-> op, pc |-> pc, id |-> id, rec |-> rec, list |-> list]

FreeSlots == {u \in 1..MaxStoreTasks : storeTasks[u] = NoTask}

\* The slot a new operation takes.
NextSlot == CHOOSE u \in FreeSlots : \A w \in FreeSlots : u <= w

\* The files before the application starts: services.json is missing or is
\* not parseable; the other two are missing.
StoreStart ==
  /\ servicesFile \in {Absent, Garbage}
  /\ groupsFile = Absent
  /\ settingsFile = Absent
  /\ backups = {}
  /\ storeTasks = [u \in 1..MaxStoreTasks |-> NoTask]
  /\ nUuid = 0
  /\ nStoreOps = 0
  /\ storeReady = FALSE
  /\ acked = {}

\* The registry when it is not looked at: an empty configuration directory.
StoreQuiet == StoreStart /\ servicesFile = Absent

\* What initializeFiles leaves of a file: the default when it did not exist.
Initialized(f, default) == IF f.kind = "absent" THEN Json(default) ELSE f

\* initialize(): ensureDir, then initializeFiles.
Initialize ==
  /\ ~storeReady
  /\ storeReady' = TRUE
  /\ servicesFile' = Initialized(servicesFile, <<>>)
  /\ groupsFile' = Initialized(groupsFile, <<>>)
  /\ settingsFile' = Initialized(settingsFile, DefaultSettings)
  /\ UNCHANGED <<backups, storeTasks, nUuid, nStoreOps, acked>>
  /\ UNCHANGED beyondStore

\* A caller starts an operation: what runs before its first await.
Begin(task, ids) ==
  /\ storeReady
  /\ nStoreOps < MaxStoreOps
  /\ FreeSlots # {}
  /\ nUuid + ids <= MaxUuid
  /\ nStoreOps' = nStoreOps + 1
  /\ nUuid' = nUuid + ids
  /\ storeTasks' = [storeTasks EXCEPT ![NextSlot] = task]
  /\ UNCHANGED <<servicesFile, groupsFile, settingsFile, backups, storeReady>>
  /\ UNCHANGED beyondStore

\* addService(service): the new record gets its id, then getServices is awaited.
AddService(rec) ==
  /\ Begin(Task("addService", "read", nUuid + 1, [rec EXCEPT !.id = nUuid + 1], <<>>), 1)
  /\ UNCHANGED acked

\* updateService(id, {name}): getServices is awaited.
UpdateService(id, name) ==
  /\ Begin(Task("updateService", "read", id, name, <<>>), 0)
  /\ UNCHANGED acked

\* deleteService(id): getServices is awaited.
DeleteService(id) ==
  /\ Begin(Task("deleteService", "read", id, <<>>, <<>>), 0)
  /\ UNCHANGED acked

\* addGroup(group): the new record gets its id, then getGroups is awaited.
AddGroup(g) ==
  /\ Begin(Task("addGroup", "readGroups", nUuid + 1, [g EXCEPT !.id = nUuid + 1], <<>>), 1)
  /\ UNCHANGED acked

\* saveServices(services): validateServices ran, backupFile is awaited.
SaveServices(list) ==
  /\ Begin(Task("saveServices", "write", 0, <<>>, list), 0)
  /\ UNCHANGED acked

\* importConfig(configData): the three validations ran (a throw ends the call
\* with nothing started), backupAll is awaited.
ImportConfig(cfg) ==
  /\ validateServices(cfg.services, nUuid).ok
  /\ validateGroups(cfg.groups).ok
  /\ validateSettings(cfg.settings)
  /\ Begin(Task("importConfig", "saveAll", 0, cfg, <<>>), 0)
  /\ UNCHANGED acked

\* services.filter(s => s.id !== id)
WithoutService(list, id) ==
  LET Keep(s) == s.id # id
  IN SelectSeq(list, Keep)

\* The list with the name of the service id replaced ({...services[index], ...updates}).
Renamed(list, id, name) ==
  [i \in 1..Len(list) |-> IF list[i].id = id THEN [list[i] EXCEPT !.name = name] ELSE list[i]]

\* groups.map(group => ({...group, services: group.services.filter(serviceId => serviceId !== id)}))
WithoutMember(groups, id) ==
  LET Keep(m) == m # id
  IN [i \in 1..Len(groups) |-> [groups[i] EXCEPT !.services = SelectSeq(@, Keep)]]

\* An update that saves the list whether or not the id is in it.
PreparedRegardless(task, list) ==
  [found |-> TRUE,
   list |-> IF task.op = "updateService" THEN Renamed(list, task.id, task.rec) ELSE list]

\* What the operation does with the list getServices returned: the list it
\* will save, or found = FALSE when it throws 'Service not found'.
Prepared(task, list) ==
  CASE task.op = "addService" -> [found |-> TRUE, list |-> Append(list, task.rec)]
    [] task.op = "updateService" ->
         [found |-> \E i \in 1..Len(list) : list[i].id = task.id,
          list |-> Renamed(list, task.id, task.rec)]
    [] OTHER ->
         [found |-> Len(WithoutService(list, task.id)) # Len(list),
          list |-> WithoutService(list, task.id)]

\* `await this.getServices()` returned to the operation in slot t.
GotServices(t) ==
  LET task == storeTasks[t]
      r == ReadServices(servicesFile)
      next == Prepared(task, r.list)
  IN /\ task.pc = "read"
     /\ servicesFile' = r.file
     /\ storeTasks' = [storeTasks EXCEPT ![t] =
                         IF next.found
                         THEN [task EXCEPT !.pc = "write", !.list = next.list]
                         ELSE NoTask]
     /\ UNCHANGED <<groupsFile, settingsFile, backups, nUuid, nStoreOps, storeReady, acked>>
     /\ UNCHANGED beyondStore

\* The ids in a list of records.
IdsOf(list) == {list[i].id : i \in 1..Len(list)}

\* The services whose presence callers were told of once the operation wrote
\* its list: an added service joins them, a deleted one leaves them, and a
\* saved list replaces them.
Acknowledged(task, ok) ==
  CASE ~ok -> acked
    [] task.op = "addService" -> acked \cup {task.id}
    [] task.op = "deleteService" -> acked \ {task.id}
    [] task.op = "saveServices" -> IdsOf(task.list)
    [] OTHER -> acked

\* `await this.saveServices(list)` returned to the operation in slot t
\* (copyOk: the copy into the backups directory worked).
WroteServices(t, copyOk) ==
  LET task == storeTasks[t]
      s == SavedServices(servicesFile, backups, task.list, nUuid, copyOk)
  IN /\ task.pc = "write"
     /\ servicesFile.kind = "absent" => copyOk
     /\ s.n <= MaxUuid
     /\ servicesFile' = s.file
     /\ backups' = s.backups
     /\ nUuid' = s.n
     /\ storeTasks' = [storeTasks EXCEPT ![t] =
                         IF s.ok /\ task.op = "deleteService"
                         THEN [task EXCEPT !.pc = "readGroups"]
                         ELSE NoTask]
     /\ acked' = Acknowledged(task, s.ok)
     /\ UNCHANGED <<groupsFile, settingsFile, nStoreOps, storeReady>>
     /\ UNCHANGED beyondStore

\* `await this.getGroups()` returned to the operation in slot t.
GotGroups(t) ==
  LET task == storeTasks[t]
      r == ReadGroups(groupsFile)
  IN /\ task.pc = "readGroups"
     /\ groupsFile' = r.file
     /\ storeTasks' = [storeTasks EXCEPT ![t] =
                         [task EXCEPT !.pc = "writeGroups",
                                      !.list = IF task.op = "addGroup"
                                               THEN Append(r.list, task.rec)
                                               ELSE WithoutMember(r.list, task.id)]]
     /\ UNCHANGED <<servicesFile, settingsFile, backups, nUuid, nStoreOps, storeReady, acked>>
     /\ UNCHANGED beyondStore

\* `await this.saveGroups(list)` returned to the operation in slot t.
WroteGroups(t, copyOk) ==
  LET task == storeTasks[t]
      s == SavedGroups(groupsFile, backups, task.list, copyOk)
  IN /\ task.pc = "writeGroups"
     /\ groupsFile.kind = "absent" => copyOk
     /\ groupsFile' = s.file
     /\ backups' = s.backups
     /\ storeTasks' = [storeTasks EXCEPT ![t] = NoTask]
     /\ UNCHANGED <<servicesFile, settingsFile, nUuid, nStoreOps, storeReady, acked>>
     /\ UNCHANGED beyondStore

\* importConfig(cfg) from backupAll on, run on the given files: the three
\* backups, then the three saves.
Imported(cfg, sf, gf, tf, bk, n, copyOk) ==
  LET b1 == BackedUp(bk, "services.json", sf, copyOk)
      b2 == BackedUp(b1, "groups.json", gf, copyOk)
      b3 == BackedUp(b2, "settings.json", tf, copyOk)
      s == SavedServices(sf, b3, cfg.services, n, copyOk)
      g == SavedGroups(gf, s.backups, cfg.groups, copyOk)
  IN [ok |-> s.ok /\ g.ok, services |-> s.file, groups |-> g.file,
      settings |-> Json(cfg.settings),
      backups |-> BackedUp(g.backups, "settings.json", tf, copyOk), n |-> s.n]

\* The operation in slot t is an importConfig whose saves completed.
SavedAll(t, copyOk) ==
  LET task == storeTasks[t]
      r == Imported(task.rec, servicesFile, groupsFile, settingsFile, backups, nUuid, copyOk)
  IN /\ task.pc = "saveAll"
     /\ servicesFile' = r.services
     /\ groupsFile' = r.groups
     /\ settingsFile' = r.settings
     /\ backups' = r.backups
     /\ nUuid' = r.n
     /\ storeTasks' = [storeTasks EXCEPT ![t] = NoTask]
     /\ acked' = IF r.ok THEN IdsOf(task.rec.services) ELSE acked
     /\ UNCHANGED <<nStoreOps, storeReady>>
     /\ UNCHANGED beyondStore

\* ---------------------------------------------------------- the application

\* The registry the application finds: two services, api set to start
\* automatically, and one group holding both.
StoredServices ==
  <<[ServiceRecord(1, "api", "/p", "run", <<>>, 0) EXCEPT !.autoStart = TRUE],
    ServiceRecord(2, "web", "/w", "run", <<>>, 0)>>

StoredGroups == <<GroupRecord(3, "all", <<1, 2>>)>>

\* The group ids the tray menu passes: the stored group, and a group deleted
\* since the menu was built.
GroupIds == {3, 4}

\* No group toggle in flight.
NoToggle == [pc |-> "idle", members |-> <<>>]

AppInit ==
  /\ appPc = "new"
  /\ toggle = NoToggle
  /\ nToggles = 0
  /\ quitAsked = FALSE
  /\ autoCalls = <<>>
  /\ toggleCalls = <<>>

\* The application before app.whenReady: the stored registry on disk, with
\* globalAutoStart on or off.
AppStart ==
  /\ CoreInit /\ DepInit /\ LegacyInit /\ AppInit /\ ChainQuiet
  /\ servicesFile = Json(StoredServices)
  /\ groupsFile = Json(StoredGroups)
  /\ settingsFile \in {Json([DefaultSettings EXCEPT !.globalAutoStart = b]) : b \in BOOLEAN}
  /\ backups = {}
  /\ storeTasks = [u \in 1..MaxStoreTasks |-> NoTask]
  /\ nUuid = 0
  /\ nStoreOps = 0
  /\ storeReady = FALSE
  /\ acked = {}

\* getSettings() on the file content f.
ReadSettings(f) ==
  IF f.kind = "json" /\ validateSettings(f.value) THEN f.value ELSE DefaultSettings

\* The tray and its menu exist.
TrayUp == appPc # "new" /\ ~quitAsked

RECURSIVE CalledAll(_, _, _, _)

\* for (const service of list) { await this.processManager.<op>Service(service) }
\* run on the supervisor state st.
CalledAll(op, list, st, pidOk) ==
  IF list = <<>> THEN st
  ELSE LET s == Head(list).name
           r == IF op = "start"
                THEN Started(s, st.procs, st.kids, st.n, st.evs, pidOk)
                ELSE StoppedOn(s, st.procs, st.kids, st.evs)
       IN CalledAll(op, Tail(list),
                    [procs |-> r.procs, kids |-> r.kids,
                     n |-> IF op = "start" THEN r.n ELSE st.n, evs |-> r.evs],
                    pidOk)

\* The calls of such a loop, in order.
CallsOf(op, list) == [i \in 1..Len(list) |-> <<op, list[i].name>>]

\* The loop runs on the supervisor as it is (its awaits resume in the same turn).
LoopRuns(op, list) ==
  /\ op = "start" =>
       nChildren + Cardinality({i \in 1..Len(list) : WouldSpawn(list[i].name, processes)})
         <= MaxChildren
  /\ \E pidOk \in BOOLEAN :
       LET st == CalledAll(op, list,
                           [procs |-> processes, kids |-> children, n |-> nChildren,
                            evs |-> events], pidOk)
       IN /\ st.n = nChildren => pidOk
          /\ processes' = st.procs
          /\ children' = st.kids
          /\ nChildren' = st.n
          /\ events' = st.evs
  /\ UNCHANGED <<dialogs, nDialogs, nLines, occKills, stopAllPc, clearedUnasked>>

\* RunbarApp.initialize() up to handleAutoStart's `await getSettings()`:
\* the registry is initialized, the tray is created.
AppInitialize ==
  /\ appPc = "new"
  /\ appPc' = "settings"
  /\ storeReady' = TRUE
  /\ servicesFile' = Initialized(servicesFile, <<>>)
  /\ groupsFile' = Initialized(groupsFile, <<>>)
  /\ settingsFile' = Initialized(settingsFile, DefaultSettings)
  /\ UNCHANGED <<backups, storeTasks, nUuid, nStoreOps, acked>>
  /\ UNCHANGED <<toggle, nToggles, quitAsked, autoCalls, toggleCalls>>
  /\ UNCHANGED <<coreVars, depVars, legacyVars, chainVars>>

\* handleAutoStart: getSettings() returned.
AutoSettings ==
  /\ appPc = "settings"
  /\ BetweenTurns
  /\ appPc' = IF ReadSettings(settingsFile).globalAutoStart THEN "services" ELSE "ready"
  /\ UNCHANGED <<toggle, nToggles, quitAsked, autoCalls, toggleCalls>>
  /\ UNCHANGED <<coreVars, depVars, legacyVars, storeVars, chainVars>>

\* services.filter(s => s.autoStart), that keeps every service.
AutoStartAll(list) == list

\* services.filter(s => s.autoStart)
AutoStartServices(list) ==
  LET Auto(s) == s.autoStart
  IN SelectSeq(list, Auto)

\* handleAutoStart: getServices() returned; the services to start are started
\* one after the other.
AutoServices ==
  LET list == AutoStartServices(ReadServices(servicesFile).list)
  IN /\ appPc = "services"
     /\ BetweenTurns
     /\ appPc' = "ready"
     /\ autoCalls' = [i \in 1..Len(list) |-> list[i].name]
     /\ LoopRuns("start", list)
     /\ UNCHANGED <<toggle, nToggles, quitAsked, toggleCalls>>
     /\ UNCHANGED <<depVars, legacyVars, storeVars, chainVars>>

\* The user clicks a group in the tray menu: handleGroupToggle(groupId) up to
\* `await getGroups()`.
GroupToggle ==
  /\ TrayUp
  /\ BetweenTurns
  /\ toggle.pc = "idle"
  /\ nToggles < MaxToggles
  /\ nToggles' = nToggles + 1
  /\ toggle' = [pc |-> "groups", members |-> <<>>]
  /\ UNCHANGED <<appPc, quitAsked, autoCalls, toggleCalls>>
  /\ UNCHANGED <<coreVars, depVars, legacyVars, storeVars, chainVars>>

\* handleGroupToggle: getGroups() returned; the group is looked up.
ToggleGroups(gid) ==
  LET groups == ReadGroups(groupsFile).list
      found == {i \in 1..Len(groups) : groups[i].id = gid}
  IN /\ toggle.pc = "groups"
     /\ BetweenTurns
     /\ toggle' = IF found = {} THEN NoToggle
                  ELSE [pc |-> "services",
                        members |-> groups[CHOOSE i \in found : \A j \in found : i <= j].services]
     /\ UNCHANGED <<appPc, nToggles, quitAsked, autoCalls, toggleCalls>>
     /\ UNCHANGED <<coreVars, depVars, legacyVars, storeVars, chainVars>>

\* services.filter(s => group.services.includes(s.id))
GroupServices(list, members) ==
  LET Member(s) == \E j \in 1..Len(members) : members[j] = s.id
  IN SelectSeq(list, Member)

\* The operation handleGroupToggle applies to the group's services: it looks
\* at the status field of the records getServices returned.
ToggleOp(groupServices) ==
  IF \A i \in 1..Len(groupServices) : groupServices[i].status = "running"
  THEN "stop" ELSE "start"

\* handleGroupToggle: getServices() returned; every service of the group is
\* stopped, or every one is started.
ToggleServices ==
  LET list == GroupServices(ReadServices(servicesFile).list, toggle.members)
  IN /\ toggle.pc = "services"
     /\ BetweenTurns
     /\ toggle' = NoToggle
     /\ toggleCalls' = CallsOf(ToggleOp(list), list)
     /\ LoopRuns(ToggleOp(list), list)
     /\ UNCHANGED <<appPc, nToggles, quitAsked, autoCalls>>
     /\ UNCHANGED <<depVars, legacyVars, storeVars, chainVars>>

\* The service ids the tray menu passes: the stored services, and a service
\* deleted since the menu was built.
ServiceIds == {1, 2, 5}

\* The user clicks a service in the tray menu: handleServiceToggle(serviceId)
\* up to `await getServices()`.
ServiceToggle(id) ==
  /\ TrayUp
  /\ BetweenTurns
  /\ toggle.pc = "idle"
  /\ nToggles < MaxToggles
  /\ nToggles' = nToggles + 1
  /\ toggle' = [pc |-> "service", members |-> <<id>>]
  /\ UNCHANGED <<appPc, quitAsked, autoCalls, toggleCalls>>
  /\ UNCHANGED <<coreVars, depVars, legacyVars, storeVars, chainVars>>

\* services.find(s => s.id === serviceId), as a list of one or no service.
FindById(list, id) ==
  LET hits == {i \in 1..Len(list) : list[i].id = id}
  IN IF hits = {} THEN <<>>
     ELSE <<list[CHOOSE i \in hits : \A j \in hits : i <= j]>>

\* The operation handleServiceToggle applies to the service: it looks at the
\* status field of the record getServices returned.
ServiceToggleOp(service) == IF service.status = "running" THEN "stop" ELSE "start"

\* handleServiceToggle: getServices() returned; the service is stopped or
\* started, or the handler returns when it is not found.
ServiceToggled ==
  LET one == FindById(ReadServices(servicesFile).list, toggle.members[1])
      op == IF one = <<>> THEN "start" ELSE ServiceToggleOp(one[1])
  IN /\ toggle.pc = "service"
     /\ BetweenTurns
     /\ toggle' = NoToggle
     /\ toggleCalls' = CallsOf(op, one)
     /\ LoopRuns(op, one)
     /\ UNCHANGED <<appPc, nToggles, quitAsked, autoCalls>>
     /\ UNCHANGED <<depVars, legacyVars, storeVars, chainVars>>

\* The user picks Quit in the tray menu: handleQuit emits app:shutdown and
\* shutdown() destroys the tray and runs stopAllServices up to its await.
Quit ==
  /\ TrayUp
  /\ BetweenTurns
  /\ quitAsked' = TRUE
  /\ stopAllPc' = "awaiting"
  /\ children' =
       [c \in 1..MaxChildren |->
          IF \E p \in Paths : processes[p].process = c
          THEN [children[c] EXCEPT !.killed = TRUE]
          ELSE children[c]]
  /\ UNCHANGED <<processes, nChildren, dialogs, nDialogs, nLines, events, occKills,
                 clearedUnasked>>
  /\ UNCHANGED <<appPc, toggle, nToggles, autoCalls, toggleCalls>>
  /\ UNCHANGED <<depVars, legacyVars, storeVars, chainVars>>

\* app.on('before-quit') of src/src/index.ts: the handler logs 'Stopping all
\* services...' and returns.
LegacyQuit ==
  /\ ~quitAsked
  /\ quitAsked' = TRUE
  /\ UNCHANGED <<appPc, toggle, nToggles, autoCalls, toggleCalls>>
  /\ UNCHANGED <<coreVars, depVars, legacyVars, storeVars, chainVars>>

\* ------------------------------------------------------------ specification

Init == CoreInit /\ DepInit /\ LegacyInit /\ StoreQuiet /\ AppInit /\ ChainQuiet

Next ==
  \/ \E s \in Services : StartService(s)
  \/ \E s \in Services : StopService(s)
  \/ \E c \in 1..MaxChildren, line \in DataLines : OnData(c, line)
  \/ \E c \in 1..MaxChildren, code \in ExitCodes : ChildDies(c, code)
  \/ \E c \in 1..MaxChildren : OnExit(c)
  \/ \E c \in 1..MaxChildren : OnError(c)
  \/ \E d \in dialogs, r \in 0..2, killOk \in BOOLEAN : DialogAnswer(d, r, killOk)
  \/ \E gone \in SUBSET (1..MaxChildren) : PollTick(gone)
  \/ StopAllBegin
  \/ StopAllFinish

Spec == Init /\ [][Next]_vars

\* Node's event loop runs every callback that is ready: exit and error events,
\* the poller's interval, the continuation of a settled await.  Nothing obliges
\* a process to exit, a child to write, or the user to answer a dialog.
FairSpec ==
  /\ Spec
  /\ WF_vars(\E c \in 1..MaxChildren : OnExit(c))
  /\ WF_vars(\E c \in 1..MaxChildren : OnError(c))
  /\ WF_vars(\E gone \in SUBSET (1..MaxChildren) : PollTick(gone))
  /\ WF_vars(StopAllFinish)

DepNext ==
  \/ \E s \in Registry : StartWithDependencies(s)
  \/ \E s \in Registry : RestartTimer(s)
  \/ \E t \in 1..MaxTasks : ServicesLoaded(t)
  \/ \E t \in 1..MaxTasks : DelayPassed(t)
  \/ \E t \in 1..MaxTasks, free, found \in BOOLEAN : PortProbed(t, free, found)
  \/ \E t \in 1..MaxTasks, r \in 0..3 : DialogAnswered(t, r)
  \/ \E c \in 1..MaxSpawned, code \in ExitCodes : ChildExits(c, code)
  \/ \E k \in 1..MaxSpawned, soon \in BOOLEAN : HealthTick(k, soon)
  \/ \E s \in Registry : StopManaged(s)

\* src/unnamed/part_006: startService with its dependencies, port probe and
\* dialog, the exit handler's restart timer, health monitoring, stopService.
DepSpec == Init /\ [][DepNext]_vars

LegacyNext ==
  \/ \E s \in Services : LegacyStart(s)
  \/ \E s \in Services : LegacyStop(s)
  \/ \E c \in 1..MaxChildren, line \in DataLines : LegacyData(c, line)
  \/ \E c \in 1..MaxChildren, code \in ExitCodes : LegacyDies(c, code)
  \/ \E c \in 1..MaxChildren : LegacyExit(c)
  \/ \E c \in 1..MaxChildren : LegacyError(c)
  \/ \E d \in dialogs, rejected, killOk \in BOOLEAN, r \in 0..2 :
       LegacyDialog(d, rejected, r, killOk)
  \/ \E gone \in SUBSET (1..MaxChildren) : LegacyPoll(gone)
  \/ LegacyQuit

\* src/src/processManager.ts
LegacySpec == Init /\ [][LegacyNext]_vars

StoreNext ==
  \/ Initialize
  \/ \E rec \in NewServices : AddService(rec)
  \/ \E id \in 1..MaxUuid : UpdateService(id, "svc")
  \/ \E id \in 1..MaxUuid : DeleteService(id)
  \/ \E g \in NewGroups : AddGroup(g)
  \/ \E list \in SavedLists : SaveServices(list)
  \/ \E cfg \in Imports : ImportConfig(cfg)
  \/ \E t \in 1..MaxStoreTasks : GotServices(t)
  \/ \E t \in 1..MaxStoreTasks, copyOk \in BOOLEAN : WroteServices(t, copyOk)
  \/ \E t \in 1..MaxStoreTasks : GotGroups(t)
  \/ \E t \in 1..MaxStoreTasks, copyOk \in BOOLEAN : WroteGroups(t, copyOk)
  \/ \E t \in 1..MaxStoreTasks, copyOk \in BOOLEAN : SavedAll(t, copyOk)

\* The registry before initialize(), the other components at rest.
StoreInit == CoreInit /\ DepInit /\ LegacyInit /\ StoreStart /\ AppInit /\ ChainQuiet

\* src/unnamed/part_004: the StorageService over its three files.
StoreSpec == StoreInit /\ [][StoreNext]_vars

AppNext ==
  \/ AppInitialize
  \/ AutoSettings
  \/ AutoServices
  \/ GroupToggle
  \/ \E gid \in GroupIds : ToggleGroups(gid)
  \/ ToggleServices
  \/ \E id \in ServiceIds : ServiceToggle(id)
  \/ ServiceToggled
  \/ Quit
  \/ StopAllFinish
  \/ \E c \in 1..MaxChildren, code \in ExitCodes : ChildDies(c, code)
  \/ \E c \in 1..MaxChildren : OnExit(c)

\* src/src/main/app.ts and src/src/ui/trayMenuController.ts around the
\* supervisor of src/src/core/processManager.ts and the StorageService.
AppSpec == AppStart /\ [][AppNext]_vars

ChainNext ==
  \/ \E k \in 1..MaxGiven : StartOne(k)
  \/ StartAll
  \/ ChainLoaded

\* A list of services in the registry, the other components at rest.
ChainInit ==
  /\ CoreInit /\ DepInit /\ LegacyInit /\ StoreQuiet /\ AppInit
  /\ given \in Lists
  /\ chain = ChainIdle

\* src/unnamed/part_006: startService and startServicesWithDependencies over
\* a list of services with dependencies.
ChainSpec == ChainInit /\ [][ChainNext]_vars

\* ------------------------------------------------------------------ claims

\* startService(s) made twice in a row on the current state.
StartTwice(s) ==
  LET a == Started(s, processes, children, nChildren, events, TRUE)
      b == Started(s, a.procs, a.kids, a.n, a.evs, TRUE)
  IN [first |-> a, second |-> b]

\* C1 as stated: for any service that is not running, two startService calls in
\* a row return true then false, and afterwards its path has a ProcessInfo and
\* exactly one child was spawned.
C1_StartTwiceAnyService ==
  \A s \in Services :
    (~Tracked(Path(s)) /\ nChildren < MaxChildren) =>
      LET t == StartTwice(s)
      IN /\ t.first.ret /\ ~t.second.ret
         /\ t.second.procs[Path(s)] # NoEntry
         /\ t.second.n = nChildren + 1

\* C1 amended: the same for every service whose command is not empty after
\* trimming; the second call changes nothing.
C1_StartTwice ==
  \A s \in Services :
    (Trim(Command(s)) # <<>> /\ ~Tracked(Path(s)) /\ nChildren < MaxChildren) =>
      LET t == StartTwice(s)
      IN /\ t.first.ret /\ ~t.second.ret
         /\ t.second.procs[Path(s)] # NoEntry
         /\ t.second.n = nChildren + 1
         /\ t.second.procs = t.first.procs /\ t.second.kids = t.first.kids

\* C1 witness: the first start has spawned the only child and the path is
\* tracked, so that a second call now returns false.
C1_Witness ==
  /\ Tracked("/p") /\ nChildren = 1 /\ processes["/p"].process = 1
  /\ ~Started("api", processes, children, nChildren, events, TRUE).ret

\* C3: the log buffer of every tracked service holds at most logStorageLimit
\* lines, whatever added them, and a line appended to a full buffer removes
\* the oldest line and keeps the order of the others.
C3_LogBufferBounded ==
  /\ \A p \in Paths : Tracked(p) => Len(getServiceLogs(p)) <= EffectiveLimit
  /\ \A c \in 1..MaxChildren, line \in DataLines :
       LET logs == children[c].info.logs
       IN Len(logs) = EffectiveLimit => Buffered(logs, line) = Append(Tail(logs), line)

\* C6: stopService on a tracked service returns true with the ProcessInfo
\* removed and the process not waited for; a stopService right after returns
\* false.
C6_StopRemovesEntry ==
  \A s \in Services :
    Tracked(Path(s)) =>
      LET a == Stopped(s)
          b == StoppedOn(s, a.procs, a.kids, a.evs)
      IN /\ a.ret /\ a.procs[Path(s)] = NoEntry
         /\ \A c \in 1..MaxChildren : a.kids[c].os = children[c].os
         /\ ~b.ret

\* C6 witness: stopService has acted on child 1, which has not exited; the path
\* is untracked and a further stopService returns false.
C6_Witness ==
  /\ ~Tracked("/p") /\ children[1].killed /\ children[1].os = "alive"
  /\ children[1].info.status = "stopping"
  /\ ~Stopped("api").ret

\* C7: stopService on an untracked path returns false and changes nothing: the
\* map, every ProcessInfo, the emitted events; no kill is issued.
C7_StopUntrackedNoEffect ==
  \A s \in Services :
    ~Tracked(Path(s)) =>
      LET a == Stopped(s)
      IN ~a.ret /\ a.procs = processes /\ a.kids = children /\ a.evs = events

\* C7 witness: the path is untracked while a child spawned for it is still
\* alive and events were emitted: a kill or an event would show.
C7_Witness ==
  /\ ~Tracked("/p") /\ children[1].os = "alive" /\ events["api"]["stopped"] = 1

\* C8: for every path without a ProcessInfo getServiceStatus is 'stopped' and
\* getServiceLogs is empty.
C8_UntrackedIsStopped ==
  \A p \in Paths : ~Tracked(p) => getServiceStatus(p) = "stopped" /\ getServiceLogs(p) = <<>>

\* C8 witness: a path just removed by stopService, whose process still runs and
\* has written a line.
C8_Witness ==
  /\ ~Tracked("/p") /\ children[1].info.status = "stopping"
  /\ children[1].os = "alive" /\ children[1].info.logs # <<>>

\* C9: a process that was sent the termination request is eventually dead,
\* even if it ignores that first signal (the force-kill after the timeout).
C9_KilledEventuallyDead ==
  \A c \in 1..MaxChildren :
    (children[c].killed /\ children[c].os = "alive") ~> (children[c].os # "alive")

\* C10: stopAllServices completes, and no entry is cleared without its process
\* having been asked to terminate, entries added while it ran included.
C10_StopAllAsksEveryProcess ==
  /\ stopAllPc = "awaiting" => ENABLED StopAllFinish
  /\ clearedUnasked = {}

\* The children spawned for path p that live and were not asked to terminate.
LiveAt(p) ==
  {c \in 1..MaxSpawned :
     spawned[c].os = "alive" /\ ~spawned[c].killed /\ PathOf(spawned[c].svc) = p}

\* C2: under every interleaving of startService / stopService calls, at most
\* one spawned child lives for a path (children already sent a termination
\* request aside), and a living child is the one its path's entry references.
C2_OneLiveChildPerPath ==
  \A p \in RegistryPaths :
    /\ Cardinality(LiveAt(p)) <= 1
    /\ \A c \in LiveAt(p) : managed[p].process = c

\* The dependencies of s, as a set.
DependencySet(s) == {Dependencies(s)[i] : i \in 1..Len(Dependencies(s))}

\* The calls suspended in the dialog of a dependency they are starting.
InDependencyDialog == {t \in 1..MaxTasks : Waiting(t, "dialog") /\ Len(tasks[t].stack) > 1}

\* C4: a service's process is spawned only when each of its dependencies is
\* tracked as running, and when the start of a dependency fails (its dialog is
\* cancelled) the call returns false, spawns nothing and leaves the service's
\* entry as it was.
C4_DependenciesFirst ==
  /\ [][\A c \in (nSpawned + 1)..nSpawned' :
          \A d \in DependencySet(spawned'[c].svc) : StatusOf(PathOf(d))' = "running"]_vars
  /\ [](\A t \in InDependencyDialog :
          LET m == Answered(Resumed(t), 0)
              S == tasks[t].stack[1].svc
          IN /\ m.ret = Some(FALSE)
             /\ m.n = nSpawned
             /\ m.procs[PathOf(S)] = managed[PathOf(S)])

\* C5: an auto-restart service is restarted automatically at most
\* RestartCeiling times between two manual starts, and its entry's attempt
\* counter counts the automatic restarts made since the last manual start.
C5_RestartsBounded ==
  \A s \in Registry :
    AutoStart(s) =>
      /\ autoSince[s] <= RestartCeiling
      /\ (managed[PathOf(s)].tracked /\ managed[PathOf(s)].process # 0)
            => managed[PathOf(s)].restartAttempts >= autoSince[s]

\* C11: no operation of the supervisor throws or rejects, the asynchronous
\* conflict flow included: no promise rejection is left without a handler.
C11_NothingEscapes == unhandled = 0

\* All registry operations have returned.
StoreIdle == \A u \in 1..MaxStoreTasks : storeTasks[u] = NoTask

\* C12: concurrent mutations of the registry lose no update: once every
\* operation has returned, each service whose addition was acknowledged and
\* that no later operation removed is in the stored list.
C12_NoLostUpdate ==
  StoreIdle => acked \subseteq IdsOf(ReadServices(servicesFile).list)

\* C13: after any sequence of registry operations, every id in a stored
\* group's member list is the id of a stored service.
C13_MembersResolve ==
  StoreIdle =>
    \A i \in 1..Len(ReadGroups(groupsFile).list) :
      \A j \in 1..Len(ReadGroups(groupsFile).list[i].services) :
        ReadGroups(groupsFile).list[i].services[j] \in IdsOf(ReadServices(servicesFile).list)

\* The record lacks a name, a path or a command.
Incomplete(rec) == rec.name = "" \/ rec.path = "" \/ rec.command = ""

\* addService(rec) run to its end on the registry as it is: whether it
\* returned the service, and the services document it leaves.
AddedNow(rec) ==
  LET r == ReadServices(servicesFile)
      s == SavedServices(r.file, backups, Append(r.list, [rec EXCEPT !.id = nUuid + 1]),
                         nUuid + 1, TRUE)
  IN [ok |-> s.ok, file |-> s.file]

\* C14: a write of a service record without a name, a path or a command is
\* rejected and leaves the services document as it was: the record is not
\* stored, neither as given nor completed with defaults.
C14_IncompleteRejected ==
  storeReady =>
    \A rec \in NewServices :
      Incomplete(rec) => ~AddedNow(rec).ok /\ AddedNow(rec).file = servicesFile

\* importConfig(cfg) run to its end on the registry as it is: whether it
\* returned without throwing, and the three documents it leaves.
ImportedNow(cfg) ==
  IF /\ validateServices(cfg.services, nUuid).ok
     /\ validateGroups(cfg.groups).ok
     /\ validateSettings(cfg.settings)
  THEN Imported(cfg, servicesFile, groupsFile, settingsFile, backups, nUuid, TRUE)
  ELSE [ok |-> FALSE, services |-> servicesFile, groups |-> groupsFile,
        settings |-> settingsFile, backups |-> backups, n |-> nUuid]

\* C15: importConfig of a document whose version is missing or is not a
\* supported one fails and leaves the services, groups and settings
\* documents as they were.
C15_BadVersionRejected ==
  storeReady =>
    \A cfg \in Imports :
      cfg.version # "1.0" =>
        /\ ~ImportedNow(cfg).ok
        /\ ImportedNow(cfg).services = servicesFile
        /\ ImportedNow(cfg).groups = groupsFile
        /\ ImportedNow(cfg).settings = settingsFile

\* The persisted fields of the records of a list, in order (the live status
\* is derived).
PersistedFields(list) ==
  [i \in 1..Len(list) |->
     [id |-> list[i].id, name |-> list[i].name, path |-> list[i].path,
      command |-> list[i].command, autoStart |-> list[i].autoStart,
      projectType |-> list[i].projectType, dependencies |-> list[i].dependencies,
      startupDelay |-> list[i].startupDelay]]

\* C16: saveServices(L) followed by getServices() returns L: the same
\* length, order and persisted fields (id, name, path, command, autoStart,
\* projectType, dependencies, startupDelay), for every valid list L.
C16_SaveThenGet ==
  storeReady =>
    \A list \in SavedLists :
      LET s == SavedServices(servicesFile, backups, list, nUuid, TRUE)
      IN /\ s.ok
         /\ PersistedFields(ReadServices(s.file).list) = PersistedFields(list)

\* C17: a services document that cannot be parsed at startup is replaced by
\* the default document once initialization has succeeded, and its content
\* is never overwritten unless a backup copy of it exists.
C17_MalformedPreserved ==
  /\ [](storeReady => servicesFile.kind # "garbage")
  /\ [][(servicesFile.kind = "garbage" /\ servicesFile' # servicesFile)
          => <<"services.json", servicesFile>> \in backups']_vars

\* The members of the toggled group that the supervisor reports as running.
ReallyRunning(list) ==
  {i \in 1..Len(list) : getServiceStatus(Path(list[i].name)) = "running"}

\* The mixed case of C18 alone: some member of the group is not running.
ToggleStartsAll ==
  [][(toggle.pc = "services" /\ toggle'.pc = "idle") =>
       LET list == GroupServices(ReadServices(servicesFile).list, toggle.members)
       IN ReallyRunning(list) # 1..Len(list) =>
            /\ toggleCalls' = CallsOf("start", list)
            /\ \A i \in ReallyRunning(list) :
                 processes'[Path(list[i].name)] = processes[Path(list[i].name)]]_vars

\* C18: a group toggle decides on the state of the processes: when some
\* member of the group is not running it calls startService for the members
\* and leaves the running ones as they are, and when every member is running
\* it calls stopService for every member, after which none is tracked.
C18_GroupTogglePolicy ==
  [][(toggle.pc = "services" /\ toggle'.pc = "idle") =>
       LET list == GroupServices(ReadServices(servicesFile).list, toggle.members)
       IN /\ ReallyRunning(list) # 1..Len(list) =>
               /\ toggleCalls' = CallsOf("start", list)
               /\ \A i \in ReallyRunning(list) :
                    processes'[Path(list[i].name)] = processes[Path(list[i].name)]
          /\ (list # <<>> /\ ReallyRunning(list) = 1..Len(list)) =>
               /\ toggleCalls' = CallsOf("stop", list)
               /\ \A i \in 1..Len(list) : processes'[Path(list[i].name)] = NoEntry]_vars

\* The quit action has been handled.
QuitHandled == quitAsked /\ stopAllPc = "idle"

\* C19: once the quit action has been handled no service is tracked, and
\* every process of a service that still lives was asked to terminate.
C19_QuitStopsAll ==
  QuitHandled =>
    /\ \A p \in Paths : ~Tracked(p)
    /\ \A c \in 1..MaxChildren : children[c].os = "alive" => children[c].killed

\* The names of the stored services, and of those whose autoStart is set.
StoredNames ==
  LET list == ReadServices(servicesFile).list
  IN [i \in 1..Len(list) |-> list[i].name]

FlaggedNames ==
  LET Flagged(s) == s.autoStart
      list == SelectSeq(ReadServices(servicesFile).list, Flagged)
  IN [i \in 1..Len(list) |-> list[i].name]

DistinctNames(list) ==
  \A i, j \in DOMAIN list : list[i].name = list[j].name => i = j

\* Service x of the list names y as a dependency, directly or through at most
\* n further services of the list.
RECURSIVE Reaches(_, _, _, _)
Reaches(list, x, y, n) ==
  \E k \in DOMAIN list :
    /\ list[k].name = x
    /\ \E i \in DOMAIN list[k].dependencies :
         LET d == list[k].dependencies[i]
         IN d = y \/ (n > 0 /\ Reaches(list, d, y, n - 1))

Acyclic(list) ==
  \A k \in DOMAIN list : ~Reaches(list, list[k].name, list[k].name, Len(list))

IsPermutation(a, b) ==
  /\ Len(a) = Len(b)
  /\ \E f \in [DOMAIN a -> DOMAIN b] :
       /\ \A i, j \in DOMAIN a : f[i] = f[j] => i = j
       /\ \A i \in DOMAIN a : a[i] = b[f[i]]

\* Every service comes after each service of the list that it depends on.
DependenciesFirst(order) ==
  \A i, j \in DOMAIN order :
    (\E d \in DOMAIN order[i].dependencies :
       order[i].dependencies[d] = order[j].name) => j < i

\* The calls of startServicesWithDependencies follow the sorted list, the
\* sorted list is the input reordered with dependencies first, and every call
\* before the current one has returned.
InDependencyOrder ==
  chain.mode \in {"all", "all done"} =>
    /\ IsPermutation(chain.order, given)
    /\ DependenciesFirst(chain.order)
    /\ Len(chain.results) = chain.pos - 1

C22_CyclesEnd ==
  /\ \A i, j \in DOMAIN chain.stack :
       chain.stack[i].service = chain.stack[j].service => i = j
  /\ Len(chain.stack) <= Len(given)

\* The error a failed updateService rejects with: the StorageError built in
\* its catch, with the error it caught in the details.
UpdateFailure(cause) == [message |-> "Failed to update service", cause |-> cause]

\* updateService(id, {name}) run to its end on the services document f:
\* whether it returned the service, the error it rejected with, and the
\* services document it leaves.
UpdatedOn(f, id) ==
  LET r == ReadServices(f)
      next == Prepared(Task("updateService", "read", id, "svc", <<>>), r.list)
      s == SavedServices(r.file, backups, next.list, nUuid, TRUE)
  IN IF ~next.found
     THEN [ok |-> FALSE, error |-> UpdateFailure("Service not found"), file |-> r.file]
     ELSE [ok |-> s.ok,
           error |-> IF s.ok THEN Null ELSE UpdateFailure("Failed to save services"),
           file |-> s.file]

\* The ids that are not in the registry.
MissingIds == (1..MaxUuid) \ IdsOf(ReadServices(servicesFile).list)

\* The services document as it is, and the same services in the old format.
Documents ==
  {servicesFile} \cup
  (IF servicesFile.kind = "json" THEN {Wrapped(servicesFile.value)} ELSE {})

getServices(f) ==
  [thrown |-> IF f.kind = "garbage" THEN "parse error"
              ELSE IF f.kind \in {"json", "wrapped"} /\ ~validateServices(f.value, MaxUuid).ok
              THEN "Service missing required fields"
              ELSE Null,
   rejected |-> Null,
   list |-> ReadServices(f).list]

\* getGroups() on the document f, likewise; validateGroups completes every
\* record of an array of objects and does not throw.
getGroups(f) ==
  [thrown |-> IF f.kind = "garbage" THEN "parse error"
              ELSE IF f.kind \in {"json", "wrapped"} /\ ~validateGroups(f.value).ok
              THEN "Group missing required fields"
              ELSE Null,
   rejected |-> Null,
   list |-> ReadGroups(f).list]

\* Stored service records without a path, without a command, without both.
BrokenServices ==
  {ServiceRecord(0, "Test", "", "run", <<>>, 0),
   ServiceRecord(0, "Test", "/p", "", <<>>, 0),
   ServiceRecord(0, "Test", "", "", <<>>, 0)}

\* Stored group records without an id and members, and without a name too.
BrokenGroups == {GroupRecord(0, "Test", <<>>), GroupRecord(0, "", <<>>)}

\* C24: once the registry is initialized, getServices() rejects with 'Service missing required fields' when a
\* stored service record lacks its path or its command, and getGroups()
\* rejects with 'Group missing required fields' when a stored group record
\* lacks required fields.
C24_InvalidRecordsSurface ==
  storeReady =>
    /\ \A rec \in BrokenServices :
         getServices(Json(<<rec>>)).rejected = "Service missing required fields"
    /\ \A g \in BrokenGroups :
         getGroups(Json(<<g>>)).rejected = "Group missing required fields"

\* The exit event of child c is handled in this step.
ExitHandled(c) == children[c].os = "dead" /\ children'[c].os = "done"

\* C25: when the exit handler of a tracked child runs for a process that
\* ended with an exit code, the ProcessInfo has status 'stopped', its exitCode
\* is that code (0 included), and the last line of its log buffer names it.
C25_ExitRecorded ==
  [][\A c \in 1..MaxChildren :
       (/\ ExitHandled(c)
        /\ children[c].exitWith # Null
        /\ \E p \in Paths : processes[p].process = c)
       => /\ children'[c].info.status = "stopped"
          /\ children'[c].info.exitCode = children[c].exitWith
          /\ children'[c].info.logs # <<>>
          /\ children'[c].info.logs[Len(children'[c].info.logs)]
               = ExitLine(children[c].exitWith)]_vars

\* The error event of child c is handled in this step.
ErrorHandled(c) == children[c].os = "failed" /\ children'[c].os = "done"

\* C26: once the error event of a failed spawn has been handled, the
\* ProcessInfo of the service has status 'error' with the message recorded
\* and getServiceStatus for its path returns 'error'; handling the event
\* starts no process.
C26_SpawnFailureExposed ==
  /\ [](\A p \in Paths :
         (/\ processes[p].process # 0
          /\ children[processes[p].process].info.status = "error")
         => /\ children[processes[p].process].info.error # Null
            /\ getServiceStatus(p) = "error")
  /\ [][\A c \in 1..MaxChildren :
          ErrorHandled(c) => /\ children'[c].info.status = "error"
                             /\ nChildren' = nChildren]_vars

\* C27: a stopService call that returns true emits one 'stopped' event for
\* the service and one that returns false emits none, and a service has no
\* more 'stopped' events than it had stops: every stop ends one run of the
\* service, and every run began with a 'started' event.
C27_OneStoppedPerStop ==
  \A s \in Services :
    /\ Stopped(s).evs = IF Stopped(s).ret THEN Emit(events, s, "stopped") ELSE events
    /\ events[s]["stopped"] <= events[s]["started"]

\* C28: once the process of a service that stopService stopped has exited,
\* a status-changed event is emitted for that service.
C28_StopConfirmed ==
  \A c \in 1..MaxChildren, s \in Services, n \in 0..MaxChildren :
    (/\ children[c].svc = s
     /\ children[c].info.status = "stopping"
     /\ children[c].os = "dead"
     /\ events[s]["statusChanged"] = n)
    ~> (events[s]["statusChanged"] > n)

\* The entry at p is believed running.
BelievedRunning(p) ==
  Tracked(p) /\ InfoOf(processes, children, p).status = "running"

\* No process has the pid of the entry at p: the child of a spawned entry has
\* ended; lsof found no process for an adopted entry (pid -1).
ProcessGone(p) ==
  IF processes[p].process # 0
  THEN children[processes[p].process].os \in {"dead", "done"}
  ELSE Tracked(p) /\ processes[p].info[1].pid = -1

\* C30: a tracked entry believed 'running', spawned or adopted, whose process
\* no longer exists does not stay 'running' forever: a poller tick (or the
\* exit handler) sets it to 'stopped'.
C30_DeadNotRunningForever ==
  \A p \in Paths :
    (BelievedRunning(p) /\ ProcessGone(p)) ~> ~BelievedRunning(p)

\* The handle's exitCode is set in the turn in which the exit (or error)
\* handler runs, so no tick of the poller finds an entry believed 'running'
\* whose handle reports an exit code: the first branch of the tick is never
\* taken.
PollerSeesNoExitCode == \A c \in Polled : children[c].exitCode = Null

\* checkServiceHealth schedules a restart of s in this step.
HealthRestarts(s) == timers'[s] > timers[s] /\ intervals' # intervals

\* C31: for one abnormal exit of an auto-restart service at most one restart
\* is scheduled: when the health check schedules a restart for a crashed
\* process, the exit handler of that process has not scheduled one.
C31_OneRestartPerCrash ==
  [][\A s \in Registry :
       HealthRestarts(s) =>
         ~(/\ AutoStart(s)
           /\ spawned[managed[PathOf(s)].process].exitCode # Some(0))]_vars

\* The entry at p references a child that exited on its own and whose exit
\* the supervisor has seen.
ExitedOnItsOwn(p) ==
  /\ processes[p].process # 0
  /\ children[processes[p].process].os = "done"
  /\ children[processes[p].process].info.status = "stopped"
  /\ ~children[processes[p].process].killed

\* C32: after a tracked process has exited on its own and the exit has been
\* seen, its entry is eventually removed from the map, so that a later
\* startService for the path is not rejected as already running.
C32_ExitedEventuallyUntracked ==
  \A p \in Paths : ExitedOnItsOwn(p) ~> ~ExitedOnItsOwn(p)

\* 'Kill Process and Start' is answered in this step and the signal reached
\* the occupant.
KillAndStart == dialogs' # dialogs /\ occKills' = occKills + 1

\* C33: when 'Kill Process and Start' is chosen, one termination signal is
\* sent to the occupant and the start is retried once; the retry spawns a
\* process for the service and leaves the path tracked by it.
C33_KillThenRetrySpawns ==
  [][KillAndStart =>
       \E d \in dialogs \ dialogs' :
         /\ nChildren' = nChildren + 1
         /\ processes'[Path(d.svc)].process = nChildren']_vars

\* The dialogs answered with 'Mark as Running' in this step.
AdoptedNow ==
  {d \in dialogs \ dialogs' :
     processes'[Path(d.svc)].adopted /\ processes'[Path(d.svc)] # processes[Path(d.svc)]}

C35_NoKillWithoutTarget ==
  /\ [](\A d \in dialogs :
         d.proc = Null => Buttons(d) = <<"Ignore", "Mark as Running">>)
  /\ [][\A d \in dialogs \ dialogs' :
          d.proc = Null =>
            /\ occKills' = occKills
            /\ \A c \in 1..MaxChildren : children'[c].killed = children[c].killed]_vars

\* The dialogs answered in this step with 'Ignore' (or dismissed): the flow
\* ends without touching the map, a process or the occupant.
IgnoredNow ==
  {d \in dialogs \ dialogs' :
     processes' = processes /\ children' = children /\ occKills' = occKills}

\* C36: when a port conflict is answered with 'Ignore' or dismissed, nothing
\* is sent to the occupant, the start has been reported as failed, and the
\* path is not left tracked as running by the attempt that hit the conflict.
C36_IgnoreAbortsStart ==
  [][\A d \in IgnoredNow :
       /\ occKills' = occKills
       /\ events'[d.svc]["error"] > 0
       /\ ~(/\ processes'[Path(d.svc)].process = d.child
            /\ getServiceStatus(Path(d.svc))' = "running")]_vars

\* C37: startService of a service whose command is empty after trimming is a
\* no-op that returns false: while the call runs and after it has returned, no
\* service, the service's dependencies included, was spawned or entered into
\* the tracking map, and the value returned is false.
EmptyCommandStart ==
  /\ chain.mode \in {"one", "one done"}
  /\ Trim(chain.order[1].command) = <<>>

C37_EmptyCommandNoOp ==
  EmptyCommandStart =>
    /\ chain.up = {}
    /\ chain.mode = "one done" => chain.results = <<FALSE>>

\* Two successive getServices() calls on the document f with no write by a
\* caller in between, uuidv4() having produced n ids before the first: the
\* lists they resolve with.  The second call reads what the first left.
ReadTwice(f, n) ==
  LET one == validateServices(f.value, n)
      left == ReadServices(f).file
      two == validateServices(left.value, one.n)
  IN [first |-> IF f.kind \in {"json", "wrapped"} /\ one.ok THEN one.items ELSE <<>>,
      second |-> IF left.kind \in {"json", "wrapped"} /\ two.ok THEN two.items ELSE <<>>]

\* Stored service records without an id, as an earlier format left them.
IdlessServices ==
  {ServiceRecord(0, "api", "/p", "run", <<>>, 0),
   ServiceRecord(0, "web", "/w", "run", <<"api">>, 500)}

\* C38: once the registry is initialized, two successive getServices() reads
\* with no write in between return the same id for every service, records
\* stored without an id included, in the array format and in the old format.
C38_StableIds ==
  storeReady =>
    \A rec \in IdlessServices : \A f \in {Json(<<rec>>), Wrapped(<<rec>>)} :
      LET r == ReadTwice(f, nUuid)
      IN /\ Len(r.first) = 1
         /\ Len(r.second) = 1
         /\ r.first[1].id = r.second[1].id

\* The child spawned last for service s, 0 when there was none.
LatestOf(s) ==
  LET mine == {c \in 1..nSpawned : spawned[c].svc = s}
  IN IF mine = {} THEN 0 ELSE CHOOSE c \in mine : \A d \in mine : d <= c

\* stopService(s) returned true and no process was spawned for s since: the
\* process spawned last for s was killed by stopService and s is untracked.
StoppedByUser(s) ==
  /\ LatestOf(s) # 0
  /\ spawned[LatestOf(s)].killed
  /\ ~managed[PathOf(s)].tracked

\* The children spawned for s in this step.
SpawnedNow(s) == {c \in (nSpawned + 1)..nSpawned' : spawned'[c].svc = s}

\* C39: a service stopService has returned true for stays untracked until a
\* caller starts it: no startService call made by a restart timer (armed by
\* the killed process's exit event or by a health check) spawns a process for
\* it and tracks it again.
C39_StoppedStaysStopped ==
  [][\A s \in Registry :
       StoppedByUser(s) /\ SpawnedNow(s) # {} => autoSince'[s] = 0]_vars

\* C40: a toggle of a single service decides on the state of its process:
\* when getServiceStatus reports the service as running, it calls stopService
\* for it and the service is no longer tracked, and otherwise it calls
\* startService for it.
C40_ServiceToggleByState ==
  [][(toggle.pc = "service" /\ toggle'.pc = "idle") =>
       LET one == FindById(ReadServices(servicesFile).list, toggle.members[1])
       IN one # <<>> =>
            IF getServiceStatus(Path(one[1].name)) = "running"
            THEN /\ toggleCalls' = <<<<"stop", one[1].name>>>>
                 /\ processes'[Path(one[1].name)] = NoEntry
            ELSE toggleCalls' = <<<<"start", one[1].name>>>>]_vars

====
